---- MODULE Spec2Model ----
(***************************************************************************)
(* RoamIQ backend: the BestTime forecast client (services/besttime.py),    *)
(* the deterministic crowd predictor (services/crowd_predictor.py) and the *)
(* request handlers that combine them (routers/crowd.py,                   *)
(* routers/elderly.py, routers/child.py).                                  *)
(*                                                                         *)
(* Text is a sequence of one-character strings, so that the substring      *)
(* scans and the "HH:MM" parse of the source are computed, not assumed.    *)
(* A JSON value the handlers read is a record with a tag: a number is kept *)
(* as the fraction n/d.                                                    *)
(***************************************************************************)
EXTENDS Integers, Sequences, FiniteSets, TLC

(***************************************************************************)
(* JSON values                                                             *)
(***************************************************************************)
Num(n)     == [t |-> "num", n |-> n, d |-> 1]
Frac(n, d) == [t |-> "num", n |-> n, d |-> d]
Null       == [t |-> "null", n |-> 0, d |-> 1]
Str        == [t |-> "str", n |-> 0, d |-> 1]

\* isinstance(val, (int, float))
IsNumber(v) == v.t = "num"

\* Optional[int] (hour, day_of_week): None is Null, an int n is Num(n)
IsNone(v) == v.t = "null"

\* Optional[str] (location, start_time): None, or a text
NoText     == [none |-> TRUE, s |-> <<>>]
Text(s)    == [none |-> FALSE, s |-> s]
\* the truth value Python gives an Optional[str]: None and "" are false
Truthy(x)  == ~x.none /\ x.s # <<>>

(***************************************************************************)
(* Text                                                                    *)
(***************************************************************************)
Upper == <<"A","B","C","D","E","F","G","H","I","J","K","L","M",
           "N","O","P","Q","R","S","T","U","V","W","X","Y","Z">>
Lower == <<"a","b","c","d","e","f","g","h","i","j","k","l","m",
           "n","o","p","q","r","s","t","u","v","w","x","y","z">>

\* str.lower() on one character
LowerChar(c) ==
  IF \E i \in 1..Len(Upper) : Upper[i] = c
  THEN Lower[CHOOSE i \in 1..Len(Upper) : Upper[i] = c]
  ELSE c

\* str.lower()
ToLower(s) == [i \in 1..Len(s) |-> LowerChar(s[i])]

\* kw in text
Contains(text, kw) ==
  \E i \in 0..(Len(text) - Len(kw)) :
     \A j \in 1..Len(kw) : text[i + j] = kw[j]

Digits == <<"0","1","2","3","4","5","6","7","8","9">>
IsDigit(c) == \E i \in 1..10 : Digits[i] = c
DigitVal(c) == (CHOOSE i \in 1..10 : Digits[i] = c) - 1

RECURSIVE DecimalValue(_)
DecimalValue(s) ==
  IF s = <<>> THEN 0
  ELSE 10 * DecimalValue(SubSeq(s, 1, Len(s) - 1)) + DigitVal(s[Len(s)])

\* start_time.split(":")[0]
BeforeColon(s) ==
  IF \E i \in 1..Len(s) : s[i] = ":"
  THEN SubSeq(s, 1, (CHOOSE i \in 1..Len(s) :
                       s[i] = ":" /\ \A j \in 1..(i - 1) : s[j] # ":") - 1)
  ELSE s

\* int(...) of a plain or signed decimal numeral; anything else is a ValueError
IsNumeral(s) == s # <<>> /\ \A i \in 1..Len(s) : IsDigit(s[i])
IntParses(s) ==
  \/ IsNumeral(s)
  \/ Len(s) > 1 /\ s[1] \in {"-", "+"} /\ IsNumeral(Tail(s))
IntOf(s) ==
  IF s[1] = "-" THEN 0 - DecimalValue(Tail(s))
  ELSE IF s[1] = "+" THEN DecimalValue(Tail(s))
  ELSE DecimalValue(s)

\* hour = None; if start_time: try: hour = int(start_time.split(":")[0])
\*                             except (ValueError, IndexError): pass
ParseHour(start_time) ==
  IF ~Truthy(start_time) THEN Null
  ELSE IF IntParses(BeforeColon(start_time.s)) THEN Num(IntOf(BeforeColon(start_time.s)))
  ELSE Null

(***************************************************************************)
(* Crowd predictor                                                         *)
(***************************************************************************)
VENUE_PATTERNS ==
  <<
     [type |-> "beach", keywords |-> <<
        <<"b","e","a","c","h">>,
        <<"s","h","o","r","e">>,
        <<"c","o","a","s","t">>,
        <<"s","e","a","s","i","d","e">>,
        <<"m","a","r","i","n","a">> >>],
     [type |-> "temple", keywords |-> <<
        <<"t","e","m","p","l","e">>,
        <<"m","a","n","d","i","r">>,
        <<"k","o","v","i","l">>,
        <<"c","h","u","r","c","h">>,
        <<"m","o","s","q","u","e">>,
        <<"s","h","r","i","n","e">>,
        <<"c","a","t","h","e","d","r","a","l">>,
        <<"b","a","s","i","l","i","c","a">> >>],
     [type |-> "restaurant", keywords |-> <<
        <<"r","e","s","t","a","u","r","a","n","t">>,
        <<"c","a","f","e">>,
        <<"d","i","n","e">>,
        <<"d","i","n","i","n","g">>,
        <<"f","o","o","d">>,
        <<"e","a","t">>,
        <<"b","r","e","a","k","f","a","s","t">>,
        <<"l","u","n","c","h">>,
        <<"d","i","n","n","e","r">>,
        <<"b","i","r","y","a","n","i">>,
        <<"d","o","s","a">>,
        <<"t","i","f","f","i","n">>,
        <<"m","e","s","s">>,
        <<"h","o","t","e","l">> >>],
     [type |-> "station", keywords |-> <<
        <<"r","a","i","l","w","a","y">>,
        <<"s","t","a","t","i","o","n">>,
        <<"j","u","n","c","t","i","o","n">>,
        <<"b","u","s"," ","s","t","a","n","d">>,
        <<"a","i","r","p","o","r","t">>,
        <<"t","e","r","m","i","n","a","l">>,
        <<"d","e","p","a","r","t","u","r","e">>,
        <<"a","r","r","i","v","a","l">> >>],
     [type |-> "hotel", keywords |-> <<
        <<"h","o","t","e","l">>,
        <<"r","e","s","o","r","t">>,
        <<"c","h","e","c","k","-","i","n">>,
        <<"c","h","e","c","k","-","o","u","t">>,
        <<"a","c","c","o","m","m","o","d","a","t","i","o","n">>,
        <<"s","t","a","y">>,
        <<"l","o","d","g","e">>,
        <<"i","n","n">> >>],
     [type |-> "monument", keywords |-> <<
        <<"f","o","r","t">>,
        <<"p","a","l","a","c","e">>,
        <<"m","o","n","u","m","e","n","t">>,
        <<"m","e","m","o","r","i","a","l">>,
        <<"m","u","s","e","u","m">>,
        <<"g","a","l","l","e","r","y">>,
        <<"t","o","m","b">>,
        <<"m","a","u","s","o","l","e","u","m">> >>],
     [type |-> "park", keywords |-> <<
        <<"p","a","r","k">>,
        <<"g","a","r","d","e","n">>,
        <<"b","o","t","a","n","i","c","a","l">>,
        <<"z","o","o">>,
        <<"w","i","l","d","l","i","f","e">>,
        <<"s","a","n","c","t","u","a","r","y">>,
        <<"r","e","s","e","r","v","e">> >>],
     [type |-> "market", keywords |-> <<
        <<"m","a","r","k","e","t">>,
        <<"b","a","z","a","a","r">>,
        <<"s","h","o","p","p","i","n","g">>,
        <<"m","a","l","l">>,
        <<"s","h","o","p">>,
        <<"s","o","u","v","e","n","i","r">>,
        <<"s","t","o","r","e">> >>],
     [type |-> "viewpoint", keywords |-> <<
        <<"v","i","e","w","p","o","i","n","t">>,
        <<"v","i","e","w"," ","p","o","i","n","t">>,
        <<"s","u","n","s","e","t">>,
        <<"s","u","n","r","i","s","e">>,
        <<"s","c","e","n","i","c">>,
        <<"l","o","o","k","o","u","t">>,
        <<"t","i","p">>,
        <<"c","a","p","e">>,
        <<"p","o","i","n","t">> >>],
     [type |-> "waterfall", keywords |-> <<
        <<"w","a","t","e","r","f","a","l","l">>,
        <<"f","a","l","l","s">>,
        <<"d","a","m">>,
        <<"l","a","k","e">>,
        <<"r","i","v","e","r">>,
        <<"b","a","c","k","w","a","t","e","r">> >>],
     [type |-> "attraction", keywords |-> <<
        <<"a","t","t","r","a","c","t","i","o","n">>,
        <<"t","o","u","r">>,
        <<"s","i","g","h","t","s","e","e","i","n","g">>,
        <<"e","x","p","l","o","r","e">>,
        <<"v","i","s","i","t">> >>]
  >>

DEFAULT_CURVE ==
  <<5, 3, 3, 3, 5, 10, 20, 35, 45, 55, 60, 65, 55, 50, 50, 55, 60, 60, 50, 40, 30, 20, 10, 5>>

HOURLY_CURVES(venue_type) ==
  CASE venue_type = "beach" ->
        <<5, 3, 2, 2, 3, 10, 25, 35, 40, 35, 30, 25, 20, 25, 30, 40, 55, 75, 85, 60, 35, 20, 10, 5>>
    [] venue_type = "temple" ->
        <<5, 3, 2, 2, 5, 30, 65, 70, 55, 40, 30, 25, 20, 15, 15, 20, 35, 60, 70, 55, 35, 20, 10, 5>>
    [] venue_type = "restaurant" ->
        <<3, 2, 2, 2, 2, 5, 15, 45, 65, 50, 30, 25, 50, 70, 55, 30, 20, 25, 45, 70, 75, 60, 35, 15>>
    [] venue_type = "station" ->
        <<20, 15, 10, 10, 15, 30, 55, 70, 75, 60, 45, 40, 40, 45, 50, 55, 65, 75, 80, 70, 55, 45, 35, 25>>
    [] venue_type = "hotel" ->
        <<10, 5, 3, 3, 5, 10, 20, 35, 50, 55, 60, 55, 50, 50, 55, 55, 50, 45, 40, 35, 30, 25, 20, 15>>
    [] venue_type = "monument" ->
        <<3, 2, 2, 2, 3, 5, 10, 20, 35, 50, 65, 70, 55, 45, 50, 55, 60, 55, 40, 25, 15, 10, 5, 3>>
    [] venue_type = "park" ->
        <<3, 2, 2, 2, 5, 15, 35, 50, 55, 50, 45, 40, 35, 30, 35, 45, 55, 65, 60, 40, 25, 15, 8, 5>>
    [] venue_type = "market" ->
        <<2, 2, 2, 2, 3, 5, 10, 20, 35, 50, 65, 70, 60, 55, 55, 60, 70, 75, 70, 55, 40, 25, 15, 5>>
    [] venue_type = "viewpoint" ->
        <<10, 5, 3, 3, 5, 30, 55, 45, 35, 30, 25, 25, 25, 25, 30, 40, 55, 75, 85, 60, 30, 15, 10, 8>>
    [] venue_type = "waterfall" ->
        <<3, 2, 2, 2, 3, 5, 15, 25, 40, 55, 65, 70, 60, 50, 50, 55, 55, 45, 30, 20, 10, 5, 3, 3>>
    [] venue_type = "attraction" ->
        <<3, 2, 2, 2, 3, 5, 15, 25, 40, 55, 65, 70, 60, 55, 55, 60, 60, 55, 40, 30, 20, 10, 5, 3>>
    [] OTHER -> DEFAULT_CURVE

\* mutant: the table written Sunday first
DAY_MULTIPLIERS_SundayFirst == <<120, 80, 80, 85, 90, 95, 115>>

\* the multipliers 0.80 .. 1.20 in hundredths, Mon=0 .. Sun=6
DAY_MULTIPLIERS == <<80, 80, 85, 90, 95, 115, 120>>

\* f"{title} {location or ''}".lower()
VenueText(title, location) ==
  ToLower(title \o <<" ">> \o (IF Truthy(location) THEN location.s ELSE <<>>))

PatternMatches(p, text) ==
  \E k \in 1..Len(p.keywords) : Contains(text, p.keywords[k])

\* mutant: a later entry of the table overrides an earlier one
classify_venue_last_match(title, location) ==
  LET text == VenueText(title, location)
      hits == {i \in 1..Len(VENUE_PATTERNS) : PatternMatches(VENUE_PATTERNS[i], text)}
  IN  IF hits = {} THEN "attraction"
      ELSE VENUE_PATTERNS[CHOOSE i \in hits : \A j \in hits : i >= j].type

classify_venue(title, location) ==
  LET text == VenueText(title, location)
      hits == {i \in 1..Len(VENUE_PATTERNS) : PatternMatches(VENUE_PATTERNS[i], text)}
  IN  IF hits = {} THEN "attraction"
      ELSE VENUE_PATTERNS[CHOOSE i \in hits : \A j \in hits : i <= j].type

RECURSIVE SumSeq(_)
SumSeq(s) == IF s = <<>> THEN 0 ELSE s[1] + SumSeq(Tail(s))

\* round(n/d) for n >= 0, d > 0: ties go to the even neighbour
RoundHalfEven(n, d) ==
  LET q == n \div d
      r == n % d
  IN  IF 2 * r > d THEN q + 1
      ELSE IF 2 * r < d THEN q
      ELSE IF q % 2 = 0 THEN q ELSE q + 1

\* mutant: int() in place of round()
RoundScaledTruncated(base, day_of_week) ==
  (base * DAY_MULTIPLIERS[day_of_week + 1]) \div 100

\* round(base * _DAY_MULTIPLIERS[day_of_week]).  The double nearest 1.15 lies
\* below 1.15, and for base 50 and 90 the double product lies below the tie
\* (57.49.., 103.49..), so round() goes down there; every other product of
\* an integer 0..100 rounds as the exact product does.
RoundScaled(base, day_of_week) ==
  LET m == DAY_MULTIPLIERS[day_of_week + 1]
  IN  IF m = 115 /\ base \in {50, 90}
      THEN (base * m) \div 100
      ELSE RoundHalfEven(base * m, 100)

\* mutant: the upper clamp is lost
MinUnclamped(a, b) == b

Min(a, b) == IF a < b THEN a ELSE b
Max(a, b) == IF a > b THEN a ELSE b

BaseBusyness(curve, hour) ==
  IF ~IsNone(hour) /\ 0 <= hour.n /\ hour.n <= 23
  THEN curve[hour.n + 1]
  ELSE RoundHalfEven(SumSeq(curve), Len(curve))

TipBand(busyness) ==
  IF busyness > 80 THEN "very crowded"
  ELSE IF busyness > 60 THEN "moderately busy"
  ELSE IF busyness > 30 THEN "reasonable"
  ELSE "quiet"

TipAddendum(venue_type, hr) ==
  IF IsNone(hr) THEN "none"
  ELSE LET hour == hr.n IN
       CASE venue_type = "beach" ->
              IF 16 <= hour /\ hour <= 19 THEN "sunset"
              ELSE IF 5 <= hour /\ hour <= 7 THEN "sunrise" ELSE "none"
         [] venue_type = "temple" ->
              IF 5 <= hour /\ hour <= 8 THEN "morning prayers"
              ELSE IF 17 <= hour /\ hour <= 19 THEN "evening aarti" ELSE "none"
         [] venue_type = "restaurant" ->
              IF hour \in {7, 8, 9} THEN "breakfast"
              ELSE IF hour \in {12, 13, 14} THEN "lunch"
              ELSE IF hour \in {19, 20, 21} THEN "dinner" ELSE "none"
         [] venue_type = "viewpoint" ->
              IF 16 <= hour /\ hour <= 19 THEN "sunset viewing" ELSE "none"
         [] OTHER -> "none"

\* returns (busyness_pct, optimization_tip, venue_type)
predict_busyness(title, location, hour, day_of_week) ==
  LET venue_type == classify_venue(title, location)
      curve      == HOURLY_CURVES(venue_type)
      base0      == BaseBusyness(curve, hour)
      base       == IF ~IsNone(day_of_week) /\ 0 <= day_of_week.n /\ day_of_week.n <= 6
                    THEN RoundScaled(base0, day_of_week.n)
                    ELSE base0
      busyness   == Max(0, Min(100, base))
  IN  [busyness   |-> busyness,
       tip        |-> <<"predicted", TipBand(busyness), TipAddendum(venue_type, hour)>>,
       venue_type |-> venue_type]

(***************************************************************************)
(* State                                                                   *)
(***************************************************************************)
VARIABLES
  bt,             \* main.besttime_client: the client and its two keys
  vs_pc,          \* venue_search: "idle", "post", "poll", "returned", "raised"
  start_data,     \* venue_search local
  progress_data,  \* venue_search local; Unassigned until a poll response is read
  polls,          \* venue_search: progress GETs issued by the running call
  last_resp,      \* what the latest progress GET produced (history)
  vs_result,      \* what venue_search returned
  ep,             \* the endpoint of the request being served, "none" when idle
  req,            \* the request body
  h_pc,           \* the handler's position
  idx,            \* activities already handled
  cur,            \* the venue whose forecast is awaited; between activities, how
                  \* the latest activity was settled (history)
  results,        \* the per-activity results collected so far
  calls,          \* external calls issued while serving the request (history)
  response        \* what the endpoint answered

vsVars  == <<vs_pc, start_data, progress_data, polls, last_resp, vs_result>>
reqVars == <<ep, req, h_pc, idx, cur, results, calls, response>>
vars    == <<bt, vs_pc, start_data, progress_data, polls, last_resp, vs_result,
             ep, req, h_pc, idx, cur, results, calls, response>>

(***************************************************************************)
(* Bounds of the model                                                     *)
(***************************************************************************)
MaxActs  == 2     \* activities in one itinerary request
MaxTypes == 2     \* venue types in one suggestions request

(***************************************************************************)
(* BestTime client: services/besttime.py                                   *)
(***************************************************************************)
MaxPolls == 15

KeysPrivate == { <<>>,
                 <<"y","o","u","r","_","p","r","i","v","a","t","e","_","k","e","y">>,
                 <<"p","r","i","_","1">> }
KeysPublic  == { <<>>,
                 <<"y","o","u","r","_","p","u","b","l","i","c","_","k","e","y">>,
                 <<"p","u","b","_","1">> }

\* besttime_client is None until lifespan() has built it
NoClient == [present |-> FALSE, api_key_private |-> <<>>, api_key_public |-> <<>>]
Clients  == {NoClient} \cup
            [present : {TRUE}, api_key_private : KeysPrivate, api_key_public : KeysPublic]

\* mutant: only a client lacking both keys counts as unconfigured
is_configured_either_key(c) ==
  IF c.api_key_private = <<>> /\ c.api_key_public = <<>> THEN FALSE
  ELSE IF \/ Contains(c.api_key_private,
                      <<"y","o","u","r","_","p","r","i","v","a","t","e","_","k","e","y">>)
          \/ Contains(c.api_key_public, <<"y","o","u","r","_","p","u","b","l","i","c">>)
       THEN FALSE
       ELSE TRUE

is_configured(c) ==
  IF c.api_key_private = <<>> \/ c.api_key_public = <<>> THEN FALSE
  ELSE IF \/ Contains(c.api_key_private,
                      <<"y","o","u","r","_","p","r","i","v","a","t","e","_","k","e","y">>)
          \/ Contains(c.api_key_public, <<"y","o","u","r","_","p","u","b","l","i","c">>)
       THEN FALSE
       ELSE TRUE

\* mutant: the gate forgets is_configured
ApiAvailablePresentOnly(c) == c.present

\* api_available = bt and bt.is_configured
ApiAvailable(c) == c.present /\ is_configured(c)

(***************************************************************************)
(* Payloads of /venues/search and /venues/progress.  A list-valued key is  *)
(* [t |-> "list", l |-> <<venue keys>>]; [t |-> "other"] is a non-empty    *)
(* value that is no list.  An absent key reads as the empty list, as       *)
(* data.get(key, []) does.  For shape "list" the items are in venues.l.    *)
(***************************************************************************)
ListOf(l) == [t |-> "list", l |-> l]
NoList    == ListOf(<<>>)
NotAList  == [t |-> "other", l |-> <<>>]

Payload(shape, job, coll, fin, v, vf, vi) ==
  [shape |-> shape, job_id |-> job, collection_id |-> coll, job_finished |-> fin,
   venues |-> v, venues_forecasts |-> vf, venue_info |-> vi]

Unassigned == Payload("unassigned", FALSE, FALSE, FALSE, NoList, NoList, NoList)
CallFailed == Payload("error", FALSE, FALSE, FALSE, NoList, NoList, NoList)
NoResp     == Payload("none", FALSE, FALSE, FALSE, NoList, NoList, NoList)

VenueKeys == {"v_str", "v_bare", "v_noid", "v_day", "v_week", "v_hot", "v_alt", "v_ftlist"}

StartPayloads ==
  { Payload("dict", TRUE, TRUE, FALSE, NoList, NoList, NoList),
    Payload("dict", TRUE, FALSE, FALSE, NoList, NoList, NoList),
    Payload("dict", FALSE, TRUE, FALSE, NoList, NoList, NoList),
    Payload("dict", FALSE, FALSE, FALSE, ListOf(<<"v_day">>), NoList, NoList),
    Payload("list", FALSE, FALSE, FALSE, ListOf(<<"v_day">>), NoList, NoList),
    Payload("scalar", FALSE, FALSE, FALSE, NoList, NoList, NoList) }

ProgressPayloads ==
  { Payload("dict", TRUE, TRUE, FALSE, NoList, NoList, NoList),
    Payload("dict", TRUE, TRUE, FALSE, ListOf(<<"v_day">>), NoList, NoList),
    Payload("dict", TRUE, TRUE, TRUE, NoList, NoList, NoList),
    Payload("dict", TRUE, TRUE, TRUE, NoList, ListOf(<<"v_day">>), NoList),
    Payload("dict", TRUE, TRUE, TRUE, NoList, NoList, ListOf(<<"v_week", "v_day">>)),
    Payload("dict", TRUE, TRUE, TRUE, NotAList, ListOf(<<"v_day">>), NoList),
    Payload("list", FALSE, FALSE, FALSE, ListOf(<<"v_day">>), NoList, NoList),
    Payload("scalar", FALSE, FALSE, FALSE, NoList, NoList, NoList) }
  \cup { Payload("dict", TRUE, TRUE, TRUE, ListOf(<<k>>), NoList, NoList) : k \in VenueKeys }

\* the POST, raise_for_status() and resp.json() of the submission
SubmitOutcomes == {CallFailed} \cup StartPayloads
\* the GET, raise_for_status() and progress_resp.json() of one poll
PollOutcomes   == {CallFailed} \cup ProgressPayloads

\* x.get(...) raises AttributeError unless x is a dict
GetRaises(p) == p.shape # "dict"

\* mutant: the call returns early only when both ids are missing
MissingIdsBoth(sd) == ~sd.job_id /\ ~sd.collection_id

\* if not job_id or not collection_id: return start_data
MissingIds(sd) == ~sd.job_id \/ ~sd.collection_id

\* mutant: the loop bound off by one, a sixteenth poll is issued
LoopContinuesOffByOne(i) == i <= MaxPolls

\* for i in range(max_polls)
LoopContinues(i) == i < MaxPolls

\* mutant: the finished flag is never seen
JobFinishedIgnored(p) == FALSE

\* job_finished = progress_data.get("job_finished", False); if job_finished
JobFinished(p) == p.job_finished

\* mutant: a poll error is not swallowed
OnPollErrorRaise == "raise"

\* except Exception as e: logger.warning(...); continue
OnPollError == "continue"

\* mutant: the final return reads progress_data although no poll assigned it
TimeoutReturnUnbound(pd, sd) ==
  IF pd.shape # "unassigned" THEN [pc |-> "returned", value |-> pd]
  ELSE [pc |-> "raised", value |-> Unassigned]

\* return progress_data if 'progress_data' in dir() else start_data
TimeoutReturn(pd, sd) ==
  IF pd.shape # "unassigned" THEN [pc |-> "returned", value |-> pd]
  ELSE [pc |-> "returned", value |-> sd]

\* a call of bt.venue_search(query, num) begins
BeginSearch ==
  /\ vs_pc' = "post"
  /\ start_data' = Unassigned
  /\ progress_data' = Unassigned
  /\ polls' = 0
  /\ last_resp' = NoResp
  /\ vs_result' = Unassigned

\* the caller has taken the outcome: the call frame is gone
EndSearch ==
  /\ vs_pc' = "idle"
  /\ start_data' = Unassigned
  /\ progress_data' = Unassigned
  /\ polls' = 0
  /\ last_resp' = NoResp
  /\ vs_result' = Unassigned

\* Step 1 of venue_search: start the search job
VsSubmit ==
  /\ vs_pc = "post"
  /\ \E out \in SubmitOutcomes :
       IF out = CallFailed
       THEN /\ vs_pc' = "raised"
            /\ UNCHANGED <<start_data, vs_result>>
       ELSE /\ start_data' = out
            /\ IF GetRaises(out)
               THEN vs_pc' = "raised" /\ UNCHANGED vs_result
               ELSE IF MissingIds(out)
                    THEN vs_pc' = "returned" /\ vs_result' = out
                    ELSE vs_pc' = "poll" /\ UNCHANGED vs_result
  /\ UNCHANGED <<bt, progress_data, polls, last_resp, reqVars>>

\* One iteration of the poll loop: sleep, GET, read the flags; after the
\* last iteration the loop falls through to the final return.
VsPoll ==
  /\ vs_pc = "poll"
  /\ \E out \in PollOutcomes :
       LET read     == out # CallFailed
           pd       == IF read THEN out ELSE progress_data
           finished == read /\ ~GetRaises(out) /\ JobFinished(out)
           reraised == ~read /\ OnPollError # "continue"
           n        == polls + 1
           late     == TimeoutReturn(pd, start_data)
       IN  /\ polls' = n
           /\ last_resp' = out
           /\ progress_data' = pd
           /\ IF finished THEN vs_pc' = "returned" /\ vs_result' = out
              ELSE IF reraised THEN vs_pc' = "raised" /\ UNCHANGED vs_result
              ELSE IF LoopContinues(n) THEN vs_pc' = "poll" /\ UNCHANGED vs_result
              ELSE vs_pc' = late.pc /\ vs_result' = late.value
  /\ UNCHANGED <<bt, start_data, reqVars>>

\* a caller outside the request handlers calls bt.venue_search
ClientCall ==
  /\ ep = "none"
  /\ vs_pc \in {"idle", "returned", "raised"}
  /\ BeginSearch
  /\ UNCHANGED <<bt, reqVars>>

(***************************************************************************)
(* Venue records and forecast payloads                                     *)
(***************************************************************************)
NoneStr == "<None>"

DayConst(c) == [h \in 1..24 |-> c]

NoAnalysis   == [kind |-> "absent", day_raw |-> <<>>, week_raw |-> <<>>]
NullAnalysis == [kind |-> "null", day_raw |-> <<>>, week_raw |-> <<>>]
Analysis(day_raw, week_raw) ==
  [kind |-> "dict", day_raw |-> day_raw, week_raw |-> week_raw]

\* a forecast container: missing or empty ("absent"), a dict, or some other
\* non-empty value such as the list of day objects
NoForecast       == [kind |-> "absent", analysis |-> NoAnalysis]
ForecastDict(an) == [kind |-> "dict", analysis |-> an]
ForecastOther    == [kind |-> "other", analysis |-> NoAnalysis]

NoDirect == <<Null, Null, Null>>

VenueDict(id, name, ft, alt, direct) ==
  [isdict |-> TRUE, venue_id |-> id, venue_name |-> name,
   venue_foot_traffic_forecast |-> ft, forecast |-> alt,
   direct |-> direct]

WeekMixed == << <<Num(40), Num(45), Null, Num(0)>>, <<>> >>

\* the venue records the service is taken to answer with, by key
VenueRec(k) ==
  CASE k = "v_str"    -> [VenueDict(NoneStr, NoneStr, NoForecast, NoForecast, NoDirect)
                            EXCEPT !.isdict = FALSE]
    [] k = "v_bare"   -> VenueDict("ven_1", "Marina Beach", NoForecast, NoForecast, NoDirect)
    [] k = "v_noid"   -> VenueDict(NoneStr, "Marina Beach", NoForecast, NoForecast, NoDirect)
    [] k = "v_day"    -> VenueDict("ven_2", "Beach Cafe",
                            ForecastDict(Analysis(DayConst(Num(45)), WeekMixed)),
                            NoForecast, NoDirect)
    [] k = "v_week"   -> VenueDict("ven_3", "Old Fort",
                            ForecastDict(Analysis(<<>>, WeekMixed)),
                            NoForecast, NoDirect)
    [] k = "v_hot"    -> VenueDict("ven_4", "Fun Fair",
                            ForecastDict(Analysis(DayConst(Num(150)), <<>>)),
                            NoForecast, NoDirect)
    [] k = "v_alt"    -> VenueDict("ven_5", "Lake View", NoForecast,
                            ForecastDict(NoAnalysis), <<Str, Num(30), Null>>)
    [] k = "v_ftlist" -> VenueDict("ven_6", "City Mall", ForecastOther,
                            NoForecast, NoDirect)

\* what bt.get_forecast_day can produce: a raise, or the parsed JSON
ForecastFailed  == [shape |-> "error", analysis |-> NoAnalysis]
DayArrays ==
  { <<>>, <<Num(30)>>, DayConst(Num(45)), DayConst(Null), DayConst(Num(150)),
    DayConst(Num(0 - 5)), DayConst(Str) }
ForecastOutcomes ==
  { ForecastFailed,
    [shape |-> "other", analysis |-> NoAnalysis],
    [shape |-> "dict", analysis |-> NoAnalysis],
    [shape |-> "dict", analysis |-> NullAnalysis] }
  \cup { [shape |-> "dict", analysis |-> Analysis(d, <<>>)] : d \in DayArrays }

(***************************************************************************)
(* routers/crowd.py helpers                                                *)
(***************************************************************************)
IsTruthyList(x) == x.t = "other" \/ x.l # <<>>

extract_venues_from_progress(data) ==
  IF data.shape = "list" THEN data.venues.l
  ELSE IF data.shape # "dict" THEN <<>>
  ELSE IF IsTruthyList(data.venues) THEN data.venues.l
  ELSE IF IsTruthyList(data.venues_forecasts) THEN data.venues_forecasts.l
  ELSE IF IsTruthyList(data.venue_info) THEN data.venue_info.l
  ELSE <<>>

RECURSIVE Flatten(_)
Flatten(rows) == IF rows = <<>> THEN <<>> ELSE rows[1] \o Flatten(Tail(rows))

\* [h for h in day if isinstance(h, (int, float)) and h > 0], over all rows
PositiveHours(week_raw) ==
  SelectSeq(Flatten(week_raw), LAMBDA h : IsNumber(h) /\ h.n > 0)

RECURSIVE SumCells(_)
SumCells(s) == IF s = <<>> THEN 0 ELSE s[1].n + SumCells(Tail(s))

\* round(sum(all_hours) / len(all_hours), 1), for whole-number hours
RoundedMean(all_hours) ==
  Frac(RoundHalfEven(10 * SumCells(all_hours), Len(all_hours)), 10)

\* sum(all_hours) / len(all_hours)
PlainMean(all_hours) == Frac(SumCells(all_hours), Len(all_hours))

Found(v, src) == [raised |-> FALSE, value |-> v, source |-> src]
NotFound      == [raised |-> FALSE, value |-> Null, source |-> "none"]
Raises        == [raised |-> TRUE, value |-> Null, source |-> "none"]

\* 0 <= hour < len(day_raw), for an hour that is not None
HourInRange(hour, day_raw) ==
  ~IsNone(hour) /\ 0 <= hour.n /\ hour.n < Len(day_raw)

FirstNumber(direct) ==
  IF \E i \in 1..Len(direct) : IsNumber(direct[i])
  THEN Found(direct[CHOOSE i \in 1..Len(direct) :
                      IsNumber(direct[i]) /\ \A j \in 1..(i - 1) : ~IsNumber(direct[j])],
             "direct")
  ELSE NotFound

extract_busyness_from_venue(venue, day_of_week, hour) ==
  IF ~venue.isdict THEN Raises
  ELSE
    LET ft == IF venue.venue_foot_traffic_forecast.kind # "absent"
              THEN venue.venue_foot_traffic_forecast
              ELSE venue.forecast
        analysis == ft.analysis
        day_raw  == analysis.day_raw
        week_raw == analysis.week_raw
        all_hours == PositiveHours(week_raw)
    IN  IF ft.kind = "other" \/ analysis.kind \in {"null", "other"} THEN Raises
        ELSE IF /\ ~IsNone(day_of_week)
                /\ day_raw # <<>>
                /\ HourInRange(hour, day_raw)
                /\ IsNumber(day_raw[hour.n + 1])
                /\ day_raw[hour.n + 1].n >= 0
             THEN Found(day_raw[hour.n + 1], "day_raw")
        ELSE IF week_raw # <<>> /\ all_hours # <<>>
             THEN Found(RoundedMean(all_hours), "week_raw")
        ELSE FirstNumber(venue.direct)

Over(b, k) == b.n > k * b.d

LiveBand(b) ==
  IF Over(b, 80) THEN "very crowded"
  ELSE IF Over(b, 60) THEN "moderately busy"
  ELSE IF Over(b, 30) THEN "reasonable"
  ELSE "quiet"

(***************************************************************************)
(* Requests                                                                *)
(***************************************************************************)
\* one entry of req.activities: the fields of ElderlyActivity, of which
\* ItineraryActivity keeps title, location, start_time and day_of_week
Activity(title, location, start_time, day_of_week, is_outdoor, duration_minutes) ==
  [title |-> title, location |-> location, start_time |-> start_time,
   day_of_week |-> day_of_week, description |-> NoText, is_outdoor |-> is_outdoor,
   duration_minutes |-> duration_minutes, category |-> NoText]

Activities ==
  { Activity(<<"M","a","r","i","n","a"," ","B","e","a","c","h">>, NoText,
             Text(<<"1","8",":","0","0">>), Num(5), TRUE, Num(150)),
    Activity(<<"R","a","n","d","o","m"," ","O","b","s","c","u","r","e"," ","T","h","i","n","g">>,
             Text(<<"C","h","e","n","n","a","i">>), NoText, Null, FALSE, Null),
    Activity(<<"H","o","t","e","l"," ","S","a","r","a","v","a","n","a">>, NoText,
             Text(<<"s","o","o","n">>), Num(0), FALSE, Num(45)),
    Activity(<<>>, NoText, Text(<<"2","5",":","0","0">>), Num(6), FALSE, Null) }

RECURSIVE SeqsUpTo(_, _)
SeqsUpTo(S, n) ==
  IF n = 0 THEN {<<>>}
  ELSE LET shorter == SeqsUpTo(S, n - 1)
       IN  shorter \cup {Append(s, x) : s \in {t \in shorter : Len(t) = n - 1}, x \in S}

Endpoints == {"venue-search", "forecast", "live", "best-times",
              "analyze-itinerary", "elderly/suggestions", "elderly/optimize-itinerary",
              "child/optimize-itinerary"}
Itineraries == {"analyze-itinerary", "elderly/optimize-itinerary"}
Direct      == {"forecast", "live", "best-times"}

TypeNames == { <<"m","u","s","e","u","m">>, <<"z","o","o">> }

NoCalls    == [venue_search |-> 0, get_forecast_day |-> 0, other |-> 0]
NoResponse == [status |-> 0]
NoRequest  == [activities |-> <<>>, types |-> <<>>, num |-> 10, day |-> Null]

\* the request bodies an endpoint is given
RequestsOf(e) ==
  IF e \in Itineraries \cup {"child/optimize-itinerary"}
  THEN {[NoRequest EXCEPT !.activities = s] : s \in SeqsUpTo(Activities, MaxActs)}
  ELSE IF e = "elderly/suggestions"
  THEN {[NoRequest EXCEPT !.types = s, !.num = n] :
           s \in SeqsUpTo(TypeNames, MaxTypes) \ {<<>>}, n \in {1, 10}}
  ELSE IF e = "forecast"
  THEN {NoRequest, [NoRequest EXCEPT !.day = Num(3)]}
  ELSE {NoRequest}

(***************************************************************************)
(* Elderly scorer: services/elderly_scorer.py.  Scores are fractions n/d;  *)
(* round(x, 1) is taken on the exact value, ties to the even tenth.        *)
(***************************************************************************)
LOW_EFFORT_TYPES ==
  {
    <<"b","a","k","e","r","y">>, <<"c","a","f","e">>,
    <<"c","a","t","h","e","d","r","a","l">>, <<"c","h","u","r","c","h">>,
    <<"c","i","n","e","m","a">>, <<"g","a","l","l","e","r","y">>,
    <<"h","o","t","e","l">>, <<"l","i","b","r","a","r","y">>,
    <<"m","a","l","l">>, <<"m","u","s","e","u","m">>,
    <<"r","e","s","t","a","u","r","a","n","t">>, <<"s","h","o","p","p","i","n","g","_","m","a","l","l">>,
    <<"s","p","a">>, <<"t","e","a","_","h","o","u","s","e">>,
    <<"t","e","m","p","l","e">>, <<"t","h","e","a","t","e","r">> }

HIGH_EFFORT_TYPES ==
  {
    <<"a","d","v","e","n","t","u","r","e">>, <<"a","m","u","s","e","m","e","n","t","_","p","a","r","k">>,
    <<"c","l","i","m","b","i","n","g">>, <<"c","y","c","l","i","n","g">>,
    <<"d","i","v","i","n","g">>, <<"h","i","k","i","n","g">>,
    <<"m","o","u","n","t","a","i","n">>, <<"s","p","o","r","t","s">>,
    <<"s","u","r","f","i","n","g">>, <<"t","h","e","m","e","_","p","a","r","k">>,
    <<"t","r","a","i","l">>, <<"t","r","e","k">>,
    <<"w","a","t","e","r","f","a","l","l">>, <<"w","a","t","e","r","p","a","r","k">>,
    <<"z","o","o">> }

HIGH_EFFORT_KEYWORDS ==
  <<
    <<"h","i","k","e">>, <<"t","r","e","k">>,
    <<"c","l","i","m","b">>, <<"s","t","a","i","r","s">>,
    <<"s","t","e","e","p">>, <<"w","a","l","k">>,
    <<"t","r","a","i","l">>, <<"u","p","h","i","l","l">>,
    <<"a","d","v","e","n","t","u","r","e">>, <<"s","p","o","r","t">>,
    <<"c","y","c","l","i","n","g">>, <<"s","u","r","f">> >>

\* mutant: the value is passed through
ClampNothing(x) == x

\* max(0, min(100, x)) of a fraction
Clamp(x) ==
  IF x.n < 0 THEN Num(0)
  ELSE IF x.n > 100 * x.d THEN Num(100)
  ELSE x

\* round(x, 1) of a fraction x >= 0, as a number of tenths.  Scores are
\* computed here in exact rationals; on a value that lies exactly between
\* two tenths the double may round to either neighbour.
Round1(x) == Frac(RoundHalfEven(10 * x.n, x.d), 10)

\* 100 - busyness_pct raises TypeError unless busyness_pct is a number
CrowdScoreRaises(busyness_pct) == ~IsNone(busyness_pct) /\ ~IsNumber(busyness_pct)

compute_crowd_score(busyness_pct) ==
  IF IsNone(busyness_pct) THEN Num(50)
  ELSE Clamp(Frac(100 * busyness_pct.d - busyness_pct.n, busyness_pct.d))

\* any(t in vtype for t in TYPES), vtype = venue_type.lower()
AnyTypeIn(TYPES, venue_type) ==
  \E t \in TYPES : Contains(ToLower(venue_type.s), t)

\* not duration_minutes
NoDuration(duration_minutes) == IsNone(duration_minutes) \/ duration_minutes.n = 0

steps_per_min(is_outdoor, venue_type) ==
  IF Truthy(venue_type) /\ AnyTypeIn(HIGH_EFFORT_TYPES, venue_type) THEN 90
  ELSE IF Truthy(venue_type) /\ AnyTypeIn(LOW_EFFORT_TYPES, venue_type) THEN 20
  ELSE IF is_outdoor THEN 70
  ELSE 30

estimate_steps_from_duration(duration_minutes, is_outdoor, venue_type) ==
  IF NoDuration(duration_minutes) THEN 0
  ELSE duration_minutes.n * steps_per_min(is_outdoor, venue_type)

\* km per hour, in hundredths
km_per_hour(is_outdoor, venue_type) ==
  IF Truthy(venue_type) /\ AnyTypeIn(HIGH_EFFORT_TYPES, venue_type) THEN 350
  ELSE IF Truthy(venue_type) /\ AnyTypeIn(LOW_EFFORT_TYPES, venue_type) THEN 50
  ELSE IF is_outdoor THEN 300
  ELSE 150

\* round(hours * km_per_hour, 2), as a number of hundredths of a km
estimate_distance_from_duration(duration_minutes, is_outdoor, venue_type) ==
  IF NoDuration(duration_minutes) THEN 0
  ELSE RoundHalfEven(duration_minutes.n * km_per_hour(is_outdoor, venue_type), 60)

\* mutant: the bands are tried from the shortest
DistancePenaltyShortestFirst(distance_km) ==
  IF distance_km > 100 THEN 8
  ELSE IF distance_km > 200 THEN 15
  ELSE IF distance_km > 300 THEN 25
  ELSE IF distance_km > 500 THEN 35
  ELSE 0

DistancePenalty(distance_km) ==
  IF distance_km > 500 THEN 35
  ELSE IF distance_km > 300 THEN 25
  ELSE IF distance_km > 200 THEN 15
  ELSE IF distance_km > 100 THEN 8
  ELSE 0

\* mutant: the two highest bands exchanged
StepsPenaltySwapped(estimated_steps) ==
  IF estimated_steps > 8000 THEN 20
  ELSE IF estimated_steps > 5000 THEN 35
  ELSE IF estimated_steps > 3000 THEN 10
  ELSE IF estimated_steps > 1500 THEN 5
  ELSE 0

StepsPenalty(estimated_steps) ==
  IF estimated_steps > 8000 THEN 35
  ELSE IF estimated_steps > 5000 THEN 20
  ELSE IF estimated_steps > 3000 THEN 10
  ELSE IF estimated_steps > 1500 THEN 5
  ELSE 0

DurationPenalty(duration_minutes) ==
  IF NoDuration(duration_minutes) THEN 0
  ELSE IF duration_minutes.n > 180 THEN 20
  ELSE IF duration_minutes.n > 120 THEN 12
  ELSE IF duration_minutes.n > 60 THEN 5
  ELSE 0

TypeAdjustment(venue_type) ==
  IF ~Truthy(venue_type) THEN 0
  ELSE IF AnyTypeIn(HIGH_EFFORT_TYPES, venue_type) THEN 0 - 25
  ELSE IF AnyTypeIn(LOW_EFFORT_TYPES, venue_type) THEN 15
  ELSE 0

\* sum(1 for kw in HIGH_EFFORT_KEYWORDS if kw in desc_lower)
EffortHits(description) ==
  IF ~Truthy(description) THEN 0
  ELSE Cardinality({k \in 1..Len(HIGH_EFFORT_KEYWORDS) :
                      Contains(ToLower(description.s), HIGH_EFFORT_KEYWORDS[k])})

compute_walkability_score(is_outdoor, duration_minutes, venue_type, description, distance_km, estimated_steps) ==
  Max(0, Min(100,
      70 - DistancePenalty(distance_km)
         - StepsPenalty(estimated_steps)
         - (IF is_outdoor THEN 10 ELSE 0)
         - DurationPenalty(duration_minutes)
         + TypeAdjustment(venue_type)
         - 8 * EffortHits(description)))

compute_accessibility_score(is_indoor, venue_type, has_seating) ==
  Max(0, Min(100,
      60 + (IF is_indoor THEN 20 ELSE 0)
         + (IF has_seating THEN 10 ELSE 0)
         + (IF Truthy(venue_type) /\ ToLower(venue_type.s) \in LOW_EFFORT_TYPES
            THEN 10 ELSE 0)))

Recommendation(overall) ==
  IF overall.n >= 75 * overall.d THEN "Highly Recommended"
  ELSE IF overall.n >= 55 * overall.d THEN "Suitable"
  ELSE IF overall.n >= 35 * overall.d THEN "Use Caution"
  ELSE "Not Recommended"

Reasons(busyness_pct, crowd, walk, is_outdoor, duration_minutes, distance_km, estimated_steps) ==
     << IF IsNone(busyness_pct) THEN "Crowd data unavailable"
        ELSE IF crowd.n >= 70 * crowd.d THEN "Low crowd levels"
        ELSE IF crowd.n <= 30 * crowd.d THEN "High crowd levels"
        ELSE "Moderate crowd levels" >>
  \o (IF estimated_steps > 6000 THEN <<"steps: plan rest breaks">>
      ELSE IF estimated_steps > 3000 THEN <<"steps: moderate walking">>
      ELSE IF estimated_steps > 0 THEN <<"steps: light walking">>
      ELSE <<>>)
  \o (IF distance_km > 300 THEN <<"distance: consider taxi">>
      ELSE IF distance_km > 100 THEN <<"distance: manageable">>
      ELSE <<>>)
  \o (IF walk >= 70 THEN <<"Minimal physical effort required">>
      ELSE IF walk <= 40 THEN <<"Significant physical effort needed">>
      ELSE <<>>)
  \o (IF is_outdoor THEN <<"Outdoor venue">> ELSE <<"Indoor venue">>)
  \o (IF ~NoDuration(duration_minutes) /\ duration_minutes.n > 120
      THEN <<"Long duration">> ELSE <<>>)

\* the VenueScore built for one entry of the activity list; a is the dict
\* rank_activities_for_elderly reads with a.get(...)
score_venue_for_elderly(a) ==
  LET crowd   == compute_crowd_score(a.busyness_pct)
      distance_km == IF IsNone(a.distance_km)
                     THEN estimate_distance_from_duration(a.duration_minutes,
                                                          a.is_outdoor, a.type)
                     ELSE a.distance_km.n
      estimated_steps == IF IsNone(a.estimated_steps)
                         THEN estimate_steps_from_duration(a.duration_minutes,
                                                           a.is_outdoor, a.type)
                         ELSE a.estimated_steps.n
      walk    == compute_walkability_score(a.is_outdoor, a.duration_minutes, a.type,
                                           a.description, distance_km,
                                           estimated_steps)
      access  == compute_accessibility_score(~a.is_outdoor, a.type, a.has_seating)
      overall == Frac(35 * crowd.n + (40 * walk + 25 * access) * crowd.d,
                      100 * crowd.d)
  IN  [name                |-> IF a.name # <<>> THEN a.name
                               ELSE <<"U","n","k","n","o","w","n">>,
       crowd_score         |-> Round1(crowd),
       walkability_score   |-> Num(walk),
       accessibility_score |-> Num(access),
       overall_score       |-> Round1(overall),
       recommendation      |-> Recommendation(overall),
       reasons             |-> Reasons(a.busyness_pct, crowd, walk, a.is_outdoor,
                                       a.duration_minutes, distance_km,
                                       estimated_steps)]

\* a < b for fractions with positive denominators
Less(a, b) == a.n * b.d < b.n * a.d

\* list.sort(key=overall_score, reverse=True): stable, so an entry goes
\* behind every entry whose key is not smaller
\* mutant: an entry goes in front of the entries with an equal key
RECURSIVE InsertBeforeEqual(_, _)
InsertBeforeEqual(sorted, v) ==
  IF sorted = <<>> THEN <<v>>
  ELSE IF ~Less(v.overall_score, sorted[1].overall_score)
       THEN <<v>> \o sorted
       ELSE <<sorted[1]>> \o InsertBeforeEqual(Tail(sorted), v)

RECURSIVE InsertByScore(_, _)
InsertByScore(sorted, v) ==
  IF sorted = <<>> THEN <<v>>
  ELSE IF Less(sorted[1].overall_score, v.overall_score)
       THEN <<v>> \o sorted
       ELSE <<sorted[1]>> \o InsertByScore(Tail(sorted), v)

RECURSIVE SortByScore(_)
SortByScore(s) ==
  IF s = <<>> THEN <<>>
  ELSE InsertByScore(SortByScore(SubSeq(s, 1, Len(s) - 1)), s[Len(s)])

\* raises when a score cannot be computed, else the ranked scores
rank_activities_for_elderly(activities) ==
  IF \E i \in 1..Len(activities) : CrowdScoreRaises(activities[i].busyness_pct)
  THEN [raised |-> TRUE, scored |-> <<>>]
  ELSE [raised |-> FALSE,
        scored |-> SortByScore([i \in 1..Len(activities) |->
                                   score_venue_for_elderly(activities[i])])]

(***************************************************************************)
(* Child scorer                                                            *)
(***************************************************************************)
\* the members of the set KID_FRIENDLY_TYPES, as the source lists them
KID_FRIENDLY_TYPES ==
  <<
    <<"a","m","u","s","e","m","e","n","t","_","p","a","r","k">>, <<"t","h","e","m","e","_","p","a","r","k">>, <<"z","o","o">>, <<"a","q","u","a","r","i","u","m">>,
    <<"p","l","a","y","g","r","o","u","n","d">>, <<"p","a","r","k">>, <<"w","a","t","e","r","_","p","a","r","k">>, <<"w","a","t","e","r","p","a","r","k">>,
    <<"b","e","a","c","h">>, <<"i","c","e","_","c","r","e","a","m">>, <<"t","o","y","_","s","t","o","r","e">>, <<"c","a","r","n","i","v","a","l">>,
    <<"c","i","r","c","u","s">>, <<"b","o","w","l","i","n","g">>, <<"a","r","c","a","d","e">>, <<"t","r","a","m","p","o","l","i","n","e">>,
    <<"m","u","s","e","u","m">>, <<"s","c","i","e","n","c","e","_","c","e","n","t","e","r">>, <<"p","l","a","n","e","t","a","r","i","u","m">> >>

SUPER_FUN_KEYWORDS ==
  <<
    <<"a","m","u","s","e","m","e","n","t">>, <<"t","h","e","m","e"," ","p","a","r","k">>, <<"r","o","l","l","e","r"," ","c","o","a","s","t","e","r">>, <<"w","a","t","e","r"," ","s","l","i","d","e">>,
    <<"z","o","o">>, <<"a","q","u","a","r","i","u","m">>, <<"p","l","a","y","g","r","o","u","n","d">>, <<"t","r","a","m","p","o","l","i","n","e">>,
    <<"c","a","r","n","i","v","a","l">>, <<"m","a","g","i","c"," ","s","h","o","w">>, <<"p","u","p","p","e","t">>, <<"c","a","r","t","o","o","n">>,
    <<"t","o","y">>, <<"c","a","n","d","y">>, <<"i","c","e"," ","c","r","e","a","m">>, <<"c","h","o","c","o","l","a","t","e">>,
    <<"f","u","n">>, <<"a","d","v","e","n","t","u","r","e"," ","p","a","r","k">>, <<"s","p","l","a","s","h">>, <<"g","o"," ","k","a","r","t">>,
    <<"b","u","m","p","e","r"," ","c","a","r">>, <<"f","e","r","r","i","s"," ","w","h","e","e","l">>, <<"m","e","r","r","y","-","g","o","-","r","o","u","n","d">>, <<"a","r","c","a","d","e">>,
    <<"g","a","m","i","n","g">>, <<"l","a","s","e","r"," ","t","a","g">>, <<"m","i","n","i"," ","g","o","l","f">>, <<"b","o","w","l","i","n","g">> >>

BORING_FOR_KIDS_KEYWORDS ==
  <<
    <<"w","i","n","e">>, <<"b","a","r">>, <<"p","u","b">>, <<"n","i","g","h","t","c","l","u","b">>,
    <<"b","r","e","w","e","r","y">>, <<"c","o","c","k","t","a","i","l">>, <<"s","p","a">>, <<"m","a","s","s","a","g","e">>,
    <<"m","e","d","i","t","a","t","i","o","n">>, <<"y","o","g","a"," ","r","e","t","r","e","a","t">>, <<"b","u","s","i","n","e","s","s">>, <<"c","o","n","f","e","r","e","n","c","e">>,
    <<"s","e","m","i","n","a","r">>, <<"w","o","r","k","s","h","o","p">>, <<"a","r","t"," ","g","a","l","l","e","r","y">>, <<"a","n","t","i","q","u","e">>,
    <<"h","e","r","i","t","a","g","e"," ","w","a","l","k">> >>

RISKY_FOR_KIDS_KEYWORDS ==
  <<
    <<"b","u","n","g","e","e">>, <<"p","a","r","a","g","l","i","d","i","n","g">>, <<"s","c","u","b","a">>, <<"d","e","e","p"," ","s","e","a">>,
    <<"r","o","c","k"," ","c","l","i","m","b","i","n","g">>, <<"c","l","i","f","f">>, <<"w","h","i","t","e"," ","w","a","t","e","r">>, <<"r","a","p","i","d","s">>,
    <<"s","k","y","d","i","v","i","n","g">>, <<"z","i","p"," ","l","i","n","e">>, <<"m","o","u","n","t","a","i","n","e","e","r","i","n","g">> >>

\* _ALTERNATIVES: the type and the first alternative of its list
ALTERNATIVES ==
  {
    <<<<"t","e","m","p","l","e">>, "Visit a children's art workshop nearby">>,
    <<<<"m","o","n","u","m","e","n","t">>, "Take a treasure hunt tour of the monument">>,
    <<<<"r","e","s","t","a","u","r","a","n","t">>, "Find a kid-friendly cafe with ice cream and games">>,
    <<<<"m","a","r","k","e","t">>, "Visit the toy section or balloon vendors">>,
    <<<<"m","u","s","e","u","m">>, "Check if there's a kids' interactive science section">>,
    <<<<"b","e","a","c","h">>, "Build sandcastles and collect seashells">>,
    <<<<"v","i","e","w","p","o","i","n","t">>, "Bring binoculars for a fun spotting game">>,
    <<<<"s","t","a","t","i","o","n">>, "Watch trains and play the train-spotting game">>,
    <<<<"h","o","t","e","l">>, "Check if the hotel has a pool or play area">> }

\* _VENUE_EMOJIS: the type and the name of its emoji
VENUE_EMOJIS ==
  {
    <<<<"b","e","a","c","h">>, "beach with umbrella">>,
    <<<<"t","e","m","p","l","e">>, "hindu temple">>,
    <<<<"r","e","s","t","a","u","r","a","n","t">>, "fork and knife with plate">>,
    <<<<"s","t","a","t","i","o","n">>, "locomotive">>,
    <<<<"h","o","t","e","l">>, "hotel">>,
    <<<<"m","o","n","u","m","e","n","t">>, "classical building">>,
    <<<<"p","a","r","k">>, "deciduous tree">>,
    <<<<"m","a","r","k","e","t">>, "shopping bags">>,
    <<<<"v","i","e","w","p","o","i","n","t">>, "camera with flash">>,
    <<<<"w","a","t","e","r","f","a","l","l">>, "water wave">>,
    <<<<"z","o","o">>, "lion">>,
    <<<<"a","q","u","a","r","i","u","m">>, "tropical fish">>,
    <<<<"a","m","u","s","e","m","e","n","t","_","p","a","r","k">>, "roller coaster">>,
    <<<<"t","h","e","m","e","_","p","a","r","k">>, "ferris wheel">>,
    <<<<"m","u","s","e","u","m">>, "classical building">>,
    <<<<"p","l","a","y","g","r","o","u","n","d">>, "playground slide">>,
    <<<<"c","i","n","e","m","a">>, "clapper board">>,
    <<<<"a","t","t","r","a","c","t","i","o","n">>, "star">> }

\* the patterns list of _classify_for_kids
KidPatterns ==
  <<
    [vtype |-> <<"b","e","a","c","h">>,
     keywords |-> { <<"b","e","a","c","h">>, <<"s","h","o","r","e">>, <<"c","o","a","s","t">>, <<"s","e","a","s","i","d","e">> }],
    [vtype |-> <<"t","e","m","p","l","e">>,
     keywords |-> { <<"t","e","m","p","l","e">>, <<"m","a","n","d","i","r">>, <<"c","h","u","r","c","h">>, <<"m","o","s","q","u","e">>, <<"s","h","r","i","n","e">> }],
    [vtype |-> <<"r","e","s","t","a","u","r","a","n","t">>,
     keywords |-> { <<"r","e","s","t","a","u","r","a","n","t">>, <<"c","a","f","e">>, <<"f","o","o","d">>, <<"b","r","e","a","k","f","a","s","t">>, <<"l","u","n","c","h">>, <<"d","i","n","n","e","r">>, <<"d","o","s","a">>, <<"b","i","r","y","a","n","i">> }],
    [vtype |-> <<"s","t","a","t","i","o","n">>,
     keywords |-> { <<"r","a","i","l","w","a","y">>, <<"s","t","a","t","i","o","n">>, <<"b","u","s"," ","s","t","a","n","d">>, <<"a","i","r","p","o","r","t">>, <<"d","e","p","a","r","t","u","r","e">>, <<"a","r","r","i","v","a","l">> }],
    [vtype |-> <<"h","o","t","e","l">>,
     keywords |-> { <<"h","o","t","e","l">>, <<"r","e","s","o","r","t">>, <<"c","h","e","c","k","-","i","n">>, <<"l","o","d","g","e">>, <<"s","t","a","y">> }],
    [vtype |-> <<"m","o","n","u","m","e","n","t">>,
     keywords |-> { <<"f","o","r","t">>, <<"p","a","l","a","c","e">>, <<"m","e","m","o","r","i","a","l">>, <<"t","o","m","b">> }],
    [vtype |-> <<"p","a","r","k">>,
     keywords |-> { <<"p","a","r","k">>, <<"g","a","r","d","e","n">>, <<"b","o","t","a","n","i","c","a","l">> }],
    [vtype |-> <<"m","a","r","k","e","t">>,
     keywords |-> { <<"m","a","r","k","e","t">>, <<"b","a","z","a","a","r">>, <<"s","h","o","p","p","i","n","g">>, <<"m","a","l","l">> }],
    [vtype |-> <<"v","i","e","w","p","o","i","n","t">>,
     keywords |-> { <<"v","i","e","w","p","o","i","n","t">>, <<"s","u","n","s","e","t">>, <<"s","u","n","r","i","s","e">>, <<"s","c","e","n","i","c">>, <<"l","o","o","k","o","u","t">> }],
    [vtype |-> <<"w","a","t","e","r","f","a","l","l">>,
     keywords |-> { <<"w","a","t","e","r","f","a","l","l">>, <<"f","a","l","l","s">>, <<"d","a","m">>, <<"l","a","k","e">> }] >>

Reverse(s) == [i \in 1..Len(s) |-> s[Len(s) + 1 - i]]

\* A set of strings is iterated in an order fixed by the hash seed of the
\* process: the orders considered for KID_FRIENDLY_TYPES
KidOrders == {"listed", "reversed", "rotated"}
KidOrder(order) ==
  IF order = "listed" THEN KID_FRIENDLY_TYPES
  ELSE IF order = "reversed" THEN Reverse(KID_FRIENDLY_TYPES)
  ELSE SubSeq(KID_FRIENDLY_TYPES, 6, Len(KID_FRIENDLY_TYPES))
       \o SubSeq(KID_FRIENDLY_TYPES, 1, 5)

\* venue_type.replace("_", " ")
Spaced(s) == [i \in 1..Len(s) |-> IF s[i] = "_" THEN " " ELSE s[i]]

\* f"{title} {description or ''}".lower()
KidText(title, description) ==
  ToLower(title \o <<" ">> \o (IF description.none THEN <<>> ELSE description.s))

\* _classify_for_kids, with the order the set is iterated in
classify_for_kids(title, description, order) ==
  LET text == KidText(title, description)
      types == KidOrder(order)
      Hit(t) == Contains(text, Spaced(t)) \/ Contains(text, t)
      hits == {i \in 1..Len(types) : Hit(types[i])}
      PatHit(p) == \E kw \in p.keywords : Contains(text, kw)
      phits == {i \in 1..Len(KidPatterns) : PatHit(KidPatterns[i])}
  IN  IF hits # {}
      THEN types[CHOOSE i \in hits : \A j \in hits : i <= j]
      ELSE IF phits # {}
      THEN KidPatterns[CHOOSE i \in phits : \A j \in phits : i <= j].vtype
      ELSE <<"a","t","t","r","a","c","t","i","o","n">>

\* sum(1 for kw in KEYWORDS if kw in text)
KeywordHits(KEYWORDS, text) ==
  Cardinality({k \in 1..Len(KEYWORDS) : Contains(text, KEYWORDS[k])})

IsKidFriendly(vtype) == \E i \in 1..Len(KID_FRIENDLY_TYPES) : KID_FRIENDLY_TYPES[i] = vtype

\* mutant: a kid-friendly type earns nothing
FunScoreNoTypeBonus(super_fun_hits, boring_hits, vtype, is_outdoor, duration_minutes) ==
  Max(0, Min(100,
      50 + super_fun_hits * 12
         - boring_hits * 15
         + (IF is_outdoor THEN 5 ELSE 0)
         + (IF NoDuration(duration_minutes) THEN 0
            ELSE IF duration_minutes.n <= 60 THEN 5
            ELSE IF duration_minutes.n > 120 THEN 0 - 10
            ELSE 0)))

FunScore(super_fun_hits, boring_hits, vtype, is_outdoor, duration_minutes) ==
  Max(0, Min(100,
      50 + super_fun_hits * 12
         - boring_hits * 15
         + (IF IsKidFriendly(vtype) THEN 20 ELSE 0)
         + (IF is_outdoor THEN 5 ELSE 0)
         + (IF NoDuration(duration_minutes) THEN 0
            ELSE IF duration_minutes.n <= 60 THEN 5
            ELSE IF duration_minutes.n > 120 THEN 0 - 10
            ELSE 0)))

SafetyScore(risky_hits, vtype, is_outdoor) ==
  Max(0, Min(100,
      70 - risky_hits * 20
         + (IF ~is_outdoor THEN 10 ELSE 0)
         + (IF vtype \in { <<"r","e","s","t","a","u","r","a","n","t">>, <<"h","o","t","e","l">>, <<"m","u","s","e","u","m">>, <<"c","i","n","e","m","a">>, <<"m","a","l","l">> }
            THEN 10 ELSE 0)
         - (IF vtype \in { <<"b","e","a","c","h">>, <<"w","a","t","e","r","f","a","l","l">>, <<"v","i","e","w","p","o","i","n","t">> }
            THEN 5 ELSE 0)))

EngagementScore(super_fun_hits, boring_hits, vtype) ==
  Max(0, Min(100,
      50 + (IF vtype \in { <<"z","o","o">>, <<"a","q","u","a","r","i","u","m">>, <<"a","m","u","s","e","m","e","n","t","_","p","a","r","k">>, <<"t","h","e","m","e","_","p","a","r","k">>, <<"p","l","a","y","g","r","o","u","n","d">>, <<"m","u","s","e","u","m">> }
            THEN 30
            ELSE IF vtype \in { <<"p","a","r","k">>, <<"b","e","a","c","h">> } THEN 15
            ELSE IF vtype \in { <<"t","e","m","p","l","e">>, <<"m","o","n","u","m","e","n","t">> } THEN 0 - 5
            ELSE 0)
         + (IF super_fun_hits > 0 THEN 15 ELSE 0)
         - (IF boring_hits > 0 THEN 20 ELSE 0)))

ChildRecommendation(overall) ==
  IF overall.n >= 75 * overall.d THEN "Super Fun!"
  ELSE IF overall.n >= 55 * overall.d THEN "Good for Kids"
  ELSE IF overall.n >= 35 * overall.d THEN "Okay"
  ELSE "Not for Kids"

ChildReasons(fun, safety, risky_hits, duration_minutes, is_outdoor) ==
     (IF fun >= 70 THEN <<"Kids will love this activity!">>
      ELSE IF fun >= 50 THEN <<"Decent fun level for children">>
      ELSE IF fun < 30 THEN <<"Might not hold kids' interest">>
      ELSE <<>>)
  \o (IF safety >= 70 THEN <<"Safe environment for children">>
      ELSE IF safety < 50 THEN <<"Extra supervision needed for kids">>
      ELSE <<>>)
  \o (IF risky_hits > 0 THEN <<"May have age restrictions">> ELSE <<>>)
  \o (IF NoDuration(duration_minutes) THEN <<>>
      ELSE IF duration_minutes.n > 120 THEN <<"Long duration">>
      ELSE IF duration_minutes.n <= 45 THEN <<"Perfect duration">>
      ELSE <<>>)
  \o (IF is_outdoor THEN <<"Outdoor">> ELSE <<>>)

NoAlternative == [text |-> NoneStr, name |-> <<>>]

\* alts[0] of _ALTERNATIVES.get(vtype, [the line naming the activity, ...])
Alternative(vtype, name) ==
  IF \E e \in ALTERNATIVES : e[1] = vtype
  THEN [text |-> (CHOOSE e \in ALTERNATIVES : e[1] = vtype)[2], name |-> <<>>]
  ELSE [text |-> "Find a kid-friendly attraction near", name |-> name]

\* _VENUE_EMOJIS.get(vtype, the star)
Emoji(vtype) ==
  IF \E e \in VENUE_EMOJIS : e[1] = vtype
  THEN (CHOOSE e \in VENUE_EMOJIS : e[1] = vtype)[2]
  ELSE "star"

score_activity_for_child(name, description, is_outdoor, duration_minutes, venue_type, order) ==
  LET text  == KidText(name, description)
      vtype == IF Truthy(venue_type) THEN venue_type.s
               ELSE classify_for_kids(name, description, order)
      super_fun_hits == KeywordHits(SUPER_FUN_KEYWORDS, text)
      boring_hits    == KeywordHits(BORING_FOR_KIDS_KEYWORDS, text)
      risky_hits     == KeywordHits(RISKY_FOR_KIDS_KEYWORDS, text)
      fun        == FunScore(super_fun_hits, boring_hits, vtype, is_outdoor,
                             duration_minutes)
      safety     == SafetyScore(risky_hits, vtype, is_outdoor)
      engagement == EngagementScore(super_fun_hits, boring_hits, vtype)
      overall    == Clamp(Frac(45 * fun + 25 * safety + 30 * engagement, 100))
  IN  [name                  |-> name,
       fun_score             |-> Num(fun),
       safety_score          |-> Num(safety),
       engagement_score      |-> Num(engagement),
       overall_score         |-> Round1(overall),
       recommendation        |-> ChildRecommendation(overall),
       emoji                 |-> IF overall.n >= 75 * overall.d THEN "glowing star"
                                 ELSE Emoji(vtype),
       reasons               |-> ChildReasons(fun, safety, risky_hits,
                                              duration_minutes, is_outdoor),
       suggested_alternative |-> IF overall.n < 55 * overall.d
                                 THEN Alternative(vtype, name)
                                 ELSE NoAlternative]

\* the ChildScore of one dict of the list: a.get("name") or a.get("title",
\* "Unknown"), a.get("type") or a.get("category")
ChildScoreOf(a, order) ==
  score_activity_for_child(IF a.name # <<>> THEN a.name
                           ELSE <<"U","n","k","n","o","w","n">>,
                           a.description, a.is_outdoor, a.duration_minutes,
                           a.type, order)

rank_activities_for_children(activities, order) ==
  SortByScore([i \in 1..Len(activities) |-> ChildScoreOf(activities[i], order)])

(***************************************************************************)
(* Request handlers.  A handler runs from one await to the next in one     *)
(* step; bt.venue_search runs by VsSubmit and VsPoll in between.           *)
(***************************************************************************)
StartRequest ==
  /\ vs_pc = "idle"
  /\ h_pc \in {"idle", "done"}
  /\ \E e \in Endpoints :
       /\ ep' = e
       /\ \E r \in RequestsOf(e) : req' = r
       /\ h_pc' = IF e \in Direct \cup {"venue-search"} THEN "start" ELSE "loop"
  /\ idx' = 0
  /\ cur' = ""
  /\ results' = <<>>
  /\ calls' = NoCalls
  /\ response' = NoResponse
  /\ UNCHANGED <<bt, vsVars>>

Respond(r) == response' = r /\ h_pc' = "done"

\* ---- POST /api/crowd/venue-search ----
VenueSearchBegin ==
  /\ ep = "venue-search" /\ h_pc = "start"
  /\ IF ~ApiAvailable(bt)
     THEN /\ Respond([status |-> 503])
          /\ UNCHANGED <<vsVars, calls>>
     ELSE /\ BeginSearch
          /\ calls' = [calls EXCEPT !.venue_search = @ + 1]
          /\ h_pc' = "search"
          /\ UNCHANGED response
  /\ UNCHANGED <<bt, ep, req, idx, cur, results>>

VenueSearchEnd ==
  /\ ep = "venue-search" /\ h_pc = "search"
  /\ vs_pc \in {"returned", "raised"}
  /\ Respond(IF vs_pc = "raised" THEN [status |-> 502]
             ELSE [status |-> 200, data |-> vs_result])
  /\ EndSearch
  /\ UNCHANGED <<bt, ep, req, idx, cur, results, calls>>

\* ---- GET /api/crowd/forecast, /live, /best-times: one call, passed on ----
\* mutant: the endpoint does not check the configuration first
DirectStatusUngated(api_available, ok) == IF ok THEN 200 ELSE 502

\* 503 without configured keys; else 200 with the upstream data, or 502
\* when the upstream call raised
DirectStatus(api_available, ok) ==
  IF ~api_available THEN 503 ELSE IF ok THEN 200 ELSE 502

ServeDirect ==
  /\ ep \in Direct /\ h_pc = "start"
  /\ \E ok \in BOOLEAN :
       Respond([status |-> DirectStatus(ApiAvailable(bt), ok)])
  /\ calls' = IF ~ApiAvailable(bt) THEN calls
              ELSE IF ep = "forecast" /\ ~IsNone(req.day)
              THEN [calls EXCEPT !.get_forecast_day = @ + 1]
              ELSE [calls EXCEPT !.other = @ + 1]
  /\ UNCHANGED <<bt, vsVars, ep, req, idx, cur, results>>

\* mutant: the fallback entry is not marked as predicted
PredictedResultUnflagged(a, hour, api_available) ==
  LET p == predict_busyness(a.title, a.location, hour, a.day_of_week)
  IN  [activity |-> a.title, venue_name |-> NoneStr, venue_id |-> NoneStr,
       busyness_at_planned_time |-> Num(p.busyness),
       optimization_tip |-> p.tip, venue_type |-> p.venue_type,
       api_available |-> api_available, is_predicted |-> FALSE,
       source |-> "predict_busyness"]

\* ---- POST /api/crowd/analyze-itinerary ----
PredictedResult(a, hour, api_available) ==
  LET p == predict_busyness(a.title, a.location, hour, a.day_of_week)
  IN  [activity |-> a.title, venue_name |-> NoneStr, venue_id |-> NoneStr,
       busyness_at_planned_time |-> Num(p.busyness),
       optimization_tip |-> p.tip, venue_type |-> p.venue_type,
       api_available |-> api_available, is_predicted |-> TRUE,
       source |-> "predict_busyness"]

\* mutant: the prediction used for a venue without busyness is not flagged
VenueResultUnflagged(a, hour, venue, busyness_at_time, source) ==
  IF ~IsNone(busyness_at_time) /\ ~IsNumber(busyness_at_time)
  THEN PredictedResult(a, hour, "absent")
  ELSE LET p == predict_busyness(a.title, a.location, hour, a.day_of_week)
       IN  [activity |-> a.title, venue_name |-> venue.venue_name,
            venue_id |-> venue.venue_id,
            busyness_at_planned_time |->
              IF IsNone(busyness_at_time) THEN Num(p.busyness) ELSE busyness_at_time,
            optimization_tip |->
              IF IsNone(busyness_at_time) THEN p.tip
              ELSE <<"live", LiveBand(busyness_at_time), "none">>,
            venue_type |-> NoneStr,
            api_available |-> "absent", is_predicted |-> FALSE,
            source |-> IF IsNone(busyness_at_time) THEN "predict_busyness"
                       ELSE source]

\* the result appended once the venue and its busyness are settled (lines
\* 266-297); comparing a value that is no number raises, and the handler of
\* line 298 answers with the prediction
VenueResult(a, hour, venue, busyness_at_time, source) ==
  IF ~IsNone(busyness_at_time) /\ ~IsNumber(busyness_at_time)
  THEN PredictedResult(a, hour, "absent")
  ELSE IF ~IsNone(busyness_at_time)
  THEN [activity |-> a.title, venue_name |-> venue.venue_name,
        venue_id |-> venue.venue_id,
        busyness_at_planned_time |-> busyness_at_time,
        optimization_tip |-> <<"live", LiveBand(busyness_at_time), "none">>,
        venue_type |-> NoneStr,
        api_available |-> "absent", is_predicted |-> FALSE,
        source |-> source]
  ELSE LET p == predict_busyness(a.title, a.location, hour, a.day_of_week)
       IN  [activity |-> a.title, venue_name |-> venue.venue_name,
            venue_id |-> venue.venue_id,
            busyness_at_planned_time |-> Num(p.busyness),
            optimization_tip |-> p.tip,
            venue_type |-> NoneStr,
            api_available |-> "absent", is_predicted |-> TRUE,
            source |-> "predict_busyness"]

\* if venue_id: "" and None are false
HasId(venue) == venue.venue_id \notin {NoneStr, ""}

\* busyness_at_time is None and venue_id and activity.day_of_week is not None
CrowdNeedsForecast(busyness_at_time, venue, a) ==
  IsNone(busyness_at_time) /\ HasId(venue) /\ ~IsNone(a.day_of_week)

\* lines 258-261, inside the try that swallows every exception
CrowdForecastCell(forecast, hour) ==
  IF forecast.shape # "dict" THEN Null
  ELSE IF forecast.analysis.kind \in {"null", "other"} THEN Null
  ELSE IF forecast.analysis.day_raw # <<>>
          /\ HourInRange(hour, forecast.analysis.day_raw)
       THEN forecast.analysis.day_raw[hour.n + 1]
       ELSE Null

\* mutant: the newest result is put in front of the earlier ones
NextActivityPrepend(r, how) ==
  /\ results' = <<r>> \o results
  /\ idx' = idx + 1
  /\ cur' = how
  /\ h_pc' = "loop"

\* mutant: an activity whose venue_search raised is taken up again
NextActivityRetry(r, how) ==
  IF how = "search raised"
  THEN results' = results /\ idx' = idx /\ cur' = how /\ h_pc' = "loop"
  ELSE /\ results' = Append(results, r)
       /\ idx' = idx + 1
       /\ cur' = how
       /\ h_pc' = "loop"

NextActivity(r, how) ==
  /\ results' = Append(results, r)
  /\ idx' = idx + 1
  /\ cur' = how
  /\ h_pc' = "loop"

CrowdIter ==
  /\ ep = "analyze-itinerary" /\ h_pc = "loop"
  /\ idx < Len(req.activities)
  /\ LET a == req.activities[idx + 1]
     IN  IF ~ApiAvailable(bt)
         THEN /\ NextActivity(PredictedResult(a, ParseHour(a.start_time), "False"),
                                "unconfigured")
              /\ UNCHANGED <<vsVars, calls>>
         ELSE /\ BeginSearch
              /\ calls' = [calls EXCEPT !.venue_search = @ + 1]
              /\ h_pc' = "search"
              /\ cur' = ""
              /\ UNCHANGED <<idx, results>>
  /\ UNCHANGED <<bt, ep, req, response>>

CrowdSearched ==
  /\ ep = "analyze-itinerary" /\ h_pc = "search"
  /\ vs_pc \in {"returned", "raised"}
  /\ LET a      == req.activities[idx + 1]
         hour   == ParseHour(a.start_time)
         venues == extract_venues_from_progress(vs_result)
     IN  IF vs_pc = "raised" \/ venues = <<>>
         THEN NextActivity(PredictedResult(a, hour, "absent"),
                           IF vs_pc = "raised" THEN "search raised" ELSE "no venues")
              /\ UNCHANGED calls
         ELSE LET venue == VenueRec(venues[1])
                  found == extract_busyness_from_venue(venue, a.day_of_week, hour)
              IN  IF found.raised
                  THEN NextActivity(PredictedResult(a, hour, "absent"), "venue")
                       /\ UNCHANGED calls
                  ELSE IF CrowdNeedsForecast(found.value, venue, a)
                  THEN /\ h_pc' = "forecast"
                       /\ cur' = venues[1]
                       /\ calls' = [calls EXCEPT !.get_forecast_day = @ + 1]
                       /\ UNCHANGED <<idx, results>>
                  ELSE NextActivity(VenueResult(a, hour, venue, found.value,
                                                found.source), "venue")
                       /\ UNCHANGED calls
  /\ EndSearch
  /\ UNCHANGED <<bt, ep, req, response>>

CrowdForecasted ==
  /\ ep = "analyze-itinerary" /\ h_pc = "forecast"
  /\ \E forecast \in ForecastOutcomes :
       LET a    == req.activities[idx + 1]
           hour == ParseHour(a.start_time)
       IN  NextActivity(VenueResult(a, hour, VenueRec(cur),
                                    CrowdForecastCell(forecast, hour),
                                    "get_forecast_day"), "forecast")
  /\ UNCHANGED <<bt, vsVars, ep, req, calls, response>>

CrowdRespond ==
  /\ ep = "analyze-itinerary" /\ h_pc = "loop"
  /\ idx = Len(req.activities)
  /\ Respond([status |-> 200, analysis |-> results,
              api_configured |-> ApiAvailable(bt)])
  /\ UNCHANGED <<bt, vsVars, ep, req, idx, cur, results, calls>>

\* ---- POST /api/elderly/optimize-itinerary ----
\* lines 149-153, inside the try that swallows every exception
ElderForecastCell(forecast, a) ==
  LET hour == ParseHour(a.start_time)
  IN  IF forecast.shape # "dict" \/ ~Truthy(a.start_time) THEN Null
      ELSE IF IsNone(hour) THEN Null
      ELSE IF forecast.analysis.kind \in {"null", "other"} THEN Null
      ELSE IF forecast.analysis.day_raw # <<>>
              /\ HourInRange(hour, forecast.analysis.day_raw)
           THEN forecast.analysis.day_raw[hour.n + 1]
           ELSE Null

\* lines 159-165: the weekly average of the venue's own forecast; an
\* exception here is caught at line 166 and leaves busyness None
ElderWeeklyMean(venue) ==
  LET ft == venue.venue_foot_traffic_forecast
      analysis == IF ft.kind = "dict" THEN ft.analysis ELSE NoAnalysis
      all_hours == PositiveHours(analysis.week_raw)
  IN  IF analysis.kind \in {"null", "other"} THEN Null
      ELSE IF analysis.week_raw # <<>> /\ all_hours # <<>> THEN PlainMean(all_hours)
      ELSE Null

\* lines 169-204: the prediction when no busyness was found, and the entry
\* appended to enriched_activities
Enriched(a, found, source) ==
  LET predicted == IsNone(found)
      pred == predict_busyness(a.title, a.location, ParseHour(a.start_time),
                               a.day_of_week)
  IN  [name |-> a.title,
       busyness_pct |-> IF predicted THEN Num(pred.busyness) ELSE found,
       is_outdoor |-> a.is_outdoor,
       duration_minutes |-> a.duration_minutes,
       type |-> a.category,
       description |-> a.description,
       has_seating |-> TRUE,
       distance_km |-> Num(estimate_distance_from_duration(
                              a.duration_minutes, a.is_outdoor, a.category)),
       estimated_steps |-> Num(estimate_steps_from_duration(
                                  a.duration_minutes, a.is_outdoor, a.category)),
       source |-> IF predicted THEN "predict_busyness" ELSE source]

\* api_available and (activity.location or activity.title)
ElderSearches(a) == ApiAvailable(bt) /\ (Truthy(a.location) \/ a.title # <<>>)

\* venue_id and activity.day_of_week is not None
ElderNeedsForecast(venue, a) == HasId(venue) /\ ~IsNone(a.day_of_week)

ElderIter ==
  /\ ep = "elderly/optimize-itinerary" /\ h_pc = "loop"
  /\ idx < Len(req.activities)
  /\ LET a == req.activities[idx + 1]
     IN  IF ~ElderSearches(a)
         THEN /\ NextActivity(Enriched(a, Null, "none"),
                               IF ApiAvailable(bt) THEN "not searched"
                               ELSE "unconfigured")
              /\ UNCHANGED <<vsVars, calls>>
         ELSE /\ BeginSearch
              /\ calls' = [calls EXCEPT !.venue_search = @ + 1]
              /\ h_pc' = "search"
              /\ cur' = ""
              /\ UNCHANGED <<idx, results>>
  /\ UNCHANGED <<bt, ep, req, response>>

ElderSearched ==
  /\ ep = "elderly/optimize-itinerary" /\ h_pc = "search"
  /\ vs_pc \in {"returned", "raised"}
  /\ LET a      == req.activities[idx + 1]
         venues == extract_venues_from_progress(vs_result)
     IN  IF vs_pc = "raised" \/ venues = <<>> \/ ~VenueRec(venues[1]).isdict
         THEN NextActivity(Enriched(a, Null, "none"),
                           IF vs_pc = "raised" THEN "search raised"
                           ELSE IF venues = <<>> THEN "no venues" ELSE "venue")
              /\ UNCHANGED calls
         ELSE IF ElderNeedsForecast(VenueRec(venues[1]), a)
         THEN /\ h_pc' = "forecast"
              /\ cur' = venues[1]
              /\ calls' = [calls EXCEPT !.get_forecast_day = @ + 1]
              /\ UNCHANGED <<idx, results>>
         ELSE NextActivity(Enriched(a, ElderWeeklyMean(VenueRec(venues[1])),
                                    "week_raw"), "venue")
              /\ UNCHANGED calls
  /\ EndSearch
  /\ UNCHANGED <<bt, ep, req, response>>

ElderForecasted ==
  /\ ep = "elderly/optimize-itinerary" /\ h_pc = "forecast"
  /\ \E forecast \in ForecastOutcomes :
       LET a    == req.activities[idx + 1]
           cell == ElderForecastCell(forecast, a)
       IN  IF ~IsNone(cell)
           THEN NextActivity(Enriched(a, cell, "get_forecast_day"), "forecast")
           ELSE NextActivity(Enriched(a, ElderWeeklyMean(VenueRec(cur)), "week_raw"),
                             "forecast")
  /\ UNCHANGED <<bt, vsVars, ep, req, calls, response>>

RECURSIVE SumScores(_)
SumScores(s) == IF s = <<>> THEN 0 ELSE s[1].overall_score.n + SumScores(Tail(s))

\* mutant: the score of the best activity stands for the itinerary
OverallScoreOfTop(scored) ==
  IF scored = <<>> THEN Num(0) ELSE scored[1].overall_score

\* round(sum(s.overall_score for s in scored) / len(scored), 1) if scored else 0
OverallScore(scored) ==
  IF scored = <<>> THEN Num(0)
  ELSE Frac(RoundHalfEven(SumScores(scored), Len(scored)), 10)

Below(s, k) == s.n < k * s.d

\* lines 209-249
Suggestions(scored, api_available) ==
  LET I == 1..Len(scored)
      Has(reasons, r) == \E j \in 1..Len(reasons) : reasons[j] = r
  IN    (IF \E i \in I : Below(scored[i].overall_score, 40)
         THEN <<"high risk">> ELSE <<>>)
     \o (IF \E i \in I : /\ ~Below(scored[i].overall_score, 40)
                         /\ Below(scored[i].overall_score, 55)
         THEN <<"moderate risk">> ELSE <<>>)
     \o (IF \E i \in I : Has(scored[i].reasons, "Long duration")
         THEN <<"long activities">> ELSE <<>>)
     \o (IF \E i \in I : Below(scored[i].walkability_score, 40)
         THEN <<"consider taxi">> ELSE <<>>)
     \o <<"demanding activities in the morning", "rest breaks">>
     \o (IF ~api_available THEN <<"estimated without crowd data">> ELSE <<>>)

ElderRespond ==
  /\ ep = "elderly/optimize-itinerary" /\ h_pc = "loop"
  /\ idx = Len(req.activities)
  /\ LET ranked == rank_activities_for_elderly(results)
     IN  IF ranked.raised
         THEN Respond([status |-> 500])
         ELSE Respond([status |-> 200,
                       scored_activities |-> ranked.scored,
                       suggestions |-> Suggestions(ranked.scored, ApiAvailable(bt)),
                       overall_elderly_score |-> OverallScore(ranked.scored),
                       api_configured |-> ApiAvailable(bt)])
  /\ UNCHANGED <<bt, vsVars, ep, req, idx, cur, results, calls>>

\* ---- POST /api/elderly/suggestions ----
\* lines 81-101: the entries one search adds to all_venues
RECURSIVE SuggestionEntries(_, _)
SuggestionEntries(venues, venue_type) ==
  IF venues = <<>> THEN <<>>
  ELSE LET v  == VenueRec(venues[1])
           ft == v.venue_foot_traffic_forecast
           all_hours == PositiveHours(ft.analysis.week_raw)
           entry == [name |-> v.venue_name,
                     busyness_pct |-> IF ft.kind = "dict" /\ all_hours # <<>>
                                      THEN PlainMean(all_hours) ELSE Null,
                     type |-> venue_type]
       IN  (IF v.isdict THEN <<entry>> ELSE <<>>)
           \o SuggestionEntries(Tail(venues), venue_type)

\* a forecast dict whose "analysis" is no dict makes analysis.get raise: the
\* entries before that venue stay, the rest of the search's venues are lost
RECURSIVE UpToRaise(_)
UpToRaise(venues) ==
  IF venues = <<>> THEN <<>>
  ELSE LET v == VenueRec(venues[1])
       IN  IF v.isdict /\ v.venue_foot_traffic_forecast.kind = "dict"
              /\ v.venue_foot_traffic_forecast.analysis.kind \in {"null", "other"}
           THEN <<>>
           ELSE <<venues[1]>> \o UpToRaise(Tail(venues))

SuggestBegin ==
  /\ ep = "elderly/suggestions" /\ h_pc = "loop"
  /\ IF ~ApiAvailable(bt)
     THEN /\ idx = 0
          /\ Respond([status |-> 503])
          /\ UNCHANGED <<vsVars, calls>>
     ELSE /\ idx < Len(req.types)
          /\ BeginSearch
          /\ calls' = [calls EXCEPT !.venue_search = @ + 1]
          /\ h_pc' = "search"
          /\ UNCHANGED response
  /\ UNCHANGED <<bt, ep, req, idx, cur, results>>

SuggestSearched ==
  /\ ep = "elderly/suggestions" /\ h_pc = "search"
  /\ vs_pc \in {"returned", "raised"}
  /\ LET venues == IF vs_pc = "raised" THEN <<>>
                   ELSE UpToRaise(extract_venues_from_progress(vs_result))
     IN  results' = results \o SuggestionEntries(venues, req.types[idx + 1])
  /\ idx' = idx + 1
  /\ h_pc' = "loop"
  /\ EndSearch
  /\ UNCHANGED <<bt, ep, req, cur, calls, response>>

\* the dict rank_activities_for_elderly reads for an entry of all_venues
SuggestionActivity(e) ==
  [name |-> IF e.name = NoneStr THEN <<>> ELSE <<e.name>>,
   busyness_pct |-> e.busyness_pct,
   is_outdoor |-> FALSE, duration_minutes |-> Num(60), type |-> Text(e.type),
   description |-> NoText, has_seating |-> TRUE,
   distance_km |-> Null, estimated_steps |-> Null]

SuggestRespond ==
  /\ ep = "elderly/suggestions" /\ h_pc = "loop"
  /\ ApiAvailable(bt)
  /\ idx = Len(req.types)
  /\ IF results = <<>>
     THEN Respond([status |-> 404])
     ELSE LET ranked == rank_activities_for_elderly(
                           [i \in 1..Len(results) |-> SuggestionActivity(results[i])])
          IN  Respond([status |-> 200,
                       scored |-> SubSeq(ranked.scored, 1,
                                         Min(req.num, Len(ranked.scored)))])
  /\ UNCHANGED <<bt, vsVars, ep, req, idx, cur, results, calls>>

(***************************************************************************)
(* Specifications                                                          *)
(***************************************************************************)
(***************************************************************************)
(* POST /api/child/optimize-itinerary: no await, one step                  *)
(***************************************************************************)
\* appended to enriched
ChildEnriched(a) ==
  [name |-> a.title, description |-> a.description, is_outdoor |-> a.is_outdoor,
   duration_minutes |-> a.duration_minutes, type |-> a.category]

ChildSuggestions(scored) ==
  LET I == 1..Len(scored)
  IN    (IF \E i \in I : ~Below(scored[i].overall_score, 70)
         THEN <<"super fun for kids">> ELSE <<>>)
     \o (IF \E i \in I : Below(scored[i].overall_score, 40)
         THEN <<"might bore kids", "Make it Fun!">> ELSE <<>>)
     \o (IF \E i \in I : /\ ~Below(scored[i].overall_score, 40)
                         /\ Below(scored[i].overall_score, 55)
         THEN <<"okay but could be more fun">> ELSE <<>>)
     \o <<"snack breaks", "sunscreen, hats, and water", "offline games and movies">>

\* round(sum(s.overall_score for s in scored) / len(scored), 1) if scored else 0
ChildOverallScore(scored) ==
  IF scored = <<>> THEN Num(0)
  ELSE Frac(RoundHalfEven(SumScores(scored), Len(scored)), 10)

\* get_kid_suggestions: only the "default" key exists, so every destination
\* gets the default list; its categories
KID_DESTINATION_SUGGESTIONS ==
  <<"amusement_park", "zoo", "restaurant", "beach", "attraction", "park">>

ChildOptimize ==
  /\ ep = "child/optimize-itinerary" /\ h_pc = "loop"
  /\ \E order \in KidOrders :
       LET enriched == [i \in 1..Len(req.activities) |->
                          ChildEnriched(req.activities[i])]
           scored == rank_activities_for_children(enriched, order)
       IN  /\ results' = enriched
           /\ idx' = Len(enriched)
           /\ cur' = order
           /\ Respond([status |-> 200,
                       scored_activities |-> scored,
                       suggestions |-> ChildSuggestions(scored),
                       overall_child_score |-> ChildOverallScore(scored),
                       kid_activity_suggestions |-> KID_DESTINATION_SUGGESTIONS])
  /\ UNCHANGED <<bt, vsVars, ep, req, calls>>

Init ==
  /\ bt \in Clients
  /\ vs_pc = "idle"
  /\ start_data = Unassigned
  /\ progress_data = Unassigned
  /\ polls = 0
  /\ last_resp = NoResp
  /\ vs_result = Unassigned
  /\ ep = "none"
  /\ req = NoRequest
  /\ h_pc = "idle"
  /\ idx = 0
  /\ cur = ""
  /\ results = <<>>
  /\ calls = NoCalls
  /\ response = NoResponse

\* the handlers of the application serving one request after another
Next ==
  \/ StartRequest
  \/ VsSubmit
  \/ VsPoll
  \/ VenueSearchBegin
  \/ VenueSearchEnd
  \/ ServeDirect
  \/ CrowdIter
  \/ CrowdSearched
  \/ CrowdForecasted
  \/ CrowdRespond
  \/ ElderIter
  \/ ElderSearched
  \/ ElderForecasted
  \/ ElderRespond
  \/ SuggestBegin
  \/ SuggestSearched
  \/ SuggestRespond
  \/ ChildOptimize

Spec == Init /\ [][Next]_vars

\* the client alone: calls of venue_search, one after another
NextSearch ==
  \/ ClientCall
  \/ VsSubmit
  \/ VsPoll

SpecSearch == Init /\ [][NextSearch]_vars

(***************************************************************************)
(* Properties of BestTimeClient.venue_search, under SpecSearch             *)
(***************************************************************************)
Finished(resp) == resp.shape = "dict" /\ resp.job_finished

\* C1: a call whose submission returned a job_id and a collection_id issues
\* at most 15 progress polls and then returns: polling happens only with
\* both ids, a call still in the loop has issued fewer than 15 polls, and
\* after the 15th poll the call has returned.
C1_AtMostFifteenPolls ==
  /\ polls <= MaxPolls
  /\ (polls > 0 \/ vs_pc = "poll") =>
        (start_data.shape = "dict" /\ start_data.job_id /\ start_data.collection_id)
  /\ vs_pc = "poll" => polls < MaxPolls
  /\ polls = MaxPolls => vs_pc = "returned"

C1_Witness ==
  /\ polls = MaxPolls
  /\ vs_pc = "returned"
  /\ last_resp = CallFailed
  /\ progress_data.shape = "dict"

\* C2: polling stops at the first poll whose response has the finished
\* flag true: whenever the latest poll read a finished response the call
\* has returned exactly that payload, so no poll follows it, and a call
\* still polling has never read a finished response.
C2_StopsAtFirstFinished ==
  /\ Finished(last_resp) => (vs_pc = "returned" /\ vs_result = last_resp)
  /\ vs_pc = "poll" => ~Finished(progress_data)

C2_Witness ==
  /\ vs_pc = "returned"
  /\ polls > 1 /\ polls < MaxPolls
  /\ Finished(last_resp)
  /\ vs_result = last_resp
  /\ vs_result.venues.l # <<>>

\* C3: when all 15 polls are used up without a finished response, the call
\* returns normally: the payload of the last poll that was read, or the
\* job-start payload when no poll was ever read; once polling has begun
\* the call never raises.
C3_TimeoutReturnsLastPayload ==
  /\ polls > 0 => vs_pc # "raised"
  /\ (polls = MaxPolls /\ ~Finished(last_resp)) =>
        /\ vs_pc = "returned"
        /\ vs_result = IF progress_data = Unassigned THEN start_data
                       ELSE progress_data

C3_Witness ==
  /\ polls = MaxPolls
  /\ vs_pc = "returned"
  /\ progress_data = Unassigned
  /\ vs_result = start_data

\* C4: an error on one progress poll never ends the call: after a failed
\* poll number k < 15 the call is still polling, a finished response on the
\* poll after a failed one is returned, and a call that has polled ends
\* only by a finished response or by using up the 15 polls.
C4_PollErrorSwallowed ==
  /\ [](/\ (last_resp = CallFailed /\ polls < MaxPolls) => vs_pc = "poll"
        /\ (polls > 0 /\ vs_pc # "poll") =>
              /\ vs_pc = "returned"
              /\ Finished(last_resp) \/ polls = MaxPolls)
  /\ [][(last_resp = CallFailed /\ vs_pc = "poll" /\ polls' = polls + 1
           /\ Finished(last_resp'))
         => (vs_pc' = "returned" /\ vs_result' = last_resp')]_vars

C4_Witness ==
  /\ vs_pc = "poll"
  /\ last_resp = CallFailed
  /\ polls = MaxPolls - 1
  /\ progress_data # Unassigned

(***************************************************************************)
(* Properties of the request handlers, under Spec                          *)
(***************************************************************************)
Configured == bt.present /\ is_configured(bt)

\* the prediction for the i-th activity of the request
Predicted(i) ==
  LET a == req.activities[i]
  IN  Num(predict_busyness(a.title, a.location, ParseHour(a.start_time),
                           a.day_of_week).busyness)

\* the busyness the handler settled for the i-th activity
Busyness(i) ==
  IF ep = "analyze-itinerary" THEN results[i].busyness_at_planned_time
  ELSE results[i].busyness_pct

\* the per-activity results of a completed itinerary analysis
PerActivity ==
  IF ep = "analyze-itinerary" THEN response.analysis
  ELSE response.scored_activities

ServiceSources == {"day_raw", "week_raw", "direct", "get_forecast_day"}
NoFallback == {"venue-search", "forecast", "live", "best-times", "elderly/suggestions"}

\* C5: without a client, or with is_configured false, the crowd
\* analyze_itinerary and the elderly optimize_itinerary issue no venue_search
\* and no forecast call, and every activity's busyness is the output of
\* predict_busyness for its title, location, hour and day, marked predicted
\* in the crowd analysis.
C5_UnconfiguredPredictsOnly ==
  (ep \in Itineraries /\ ~Configured) =>
    /\ calls = NoCalls
    /\ vs_pc = "idle" /\ h_pc \notin {"search", "forecast"}
    /\ \A i \in 1..Len(results) :
         /\ Busyness(i) = Predicted(i)
         /\ ep = "analyze-itinerary" => results[i].is_predicted

C5_Witness ==
  /\ ep = "analyze-itinerary"
  /\ bt.present /\ ~is_configured(bt)
  /\ h_pc = "done"
  /\ Len(response.analysis) >= 2
  /\ response.analysis[1] # response.analysis[2]

\* C6: with a configured client, when the venue search for an activity
\* raises or yields zero venues, the step that settles the activity appends
\* a result whose busyness is the output of predict_busyness, marked
\* is_predicted = true with venue_name and venue_id null (crowd analysis);
\* the elderly handler hands the same prediction to the scorer.
C6_SearchFailurePredicts ==
  [][(/\ ep \in Itineraries /\ Configured
      /\ h_pc = "search" /\ vs_pc \in {"returned", "raised"}
      /\ vs_pc = "raised" \/ extract_venues_from_progress(vs_result) = <<>>
      /\ h_pc' # "search")
     => /\ idx' = idx + 1 /\ Len(results') = idx'
        /\ IF ep = "analyze-itinerary"
           THEN /\ results'[idx'].busyness_at_planned_time = Predicted(idx')
                /\ results'[idx'].is_predicted
                /\ results'[idx'].venue_name = NoneStr
                /\ results'[idx'].venue_id = NoneStr
           ELSE results'[idx'].busyness_pct = Predicted(idx')]_vars

C6_Witness ==
  /\ ep = "analyze-itinerary" /\ Configured
  /\ idx = 2 /\ h_pc = "loop"
  /\ cur = "search raised"
  /\ results[1].source = "day_raw"
  /\ results[2].is_predicted /\ results[2].venue_id = NoneStr

\* C7 as stated: for every activity of every itinerary analysis the busyness
\* reported, or handed to the scorer, is a number in [0,100].
C7_BusynessInRange ==
  ep \in Itineraries =>
    \A i \in 1..Len(results) :
      /\ IsNumber(Busyness(i))
      /\ 0 <= Busyness(i).n
      /\ Busyness(i).n <= 100 * Busyness(i).d

C9_AnalysisNeverAborts ==
  (ep \in Itineraries /\ h_pc = "done") =>
    /\ response.status = 200
    /\ Len(PerActivity) = Len(req.activities)

Quiescent ==
  /\ vs_pc = "idle"
  /\ start_data = Unassigned
  /\ progress_data = Unassigned
  /\ polls = 0
  /\ last_resp = NoResp
  /\ vs_result = Unassigned
  /\ idx = 0
  /\ cur = ""
  /\ results = <<>>
  /\ calls = NoCalls
  /\ response = NoResponse

PredictTitles ==
  { <<"J","u","h","u"," ","B","e","a","c","h">>,
    <<"R","a","n","d","o","m"," ","O","b","s","c","u","r","e"," ","T","h","i","n","g">>,
    <<"M","a","r","i","n","a"," ","B","e","a","c","h">>,
    <<"H","o","t","e","l"," ","S","a","r","a","v","a","n","a">>,
    <<"B","e","a","c","h"," ","T","e","m","p","l","e">>,
    <<"C","a","f","e">>,
    <<"R","a","i","l","w","a","y">>,
    <<"R","e","s","o","r","t">>,
    <<"F","o","r","t">>,
    <<"Z","o","o">>,
    <<"M","a","l","l">>,
    <<"C","a","p","e"," ","P","o","i","n","t">>,
    <<"L","a","k","e">>,
    <<"C","i","t","y"," ","T","o","u","r">> }

PredictLocations ==
  { NoText, Text(<<>>), Text(<<"T","e","m","p","l","e"," ","R","o","a","d">>) }

\* Optional[int]: None, and the integers around the valid range
PredictHours == {Null} \cup {Num(h) : h \in (0 - 1)..24}
PredictDays  == {Null} \cup {Num(d) : d \in (0 - 1)..7}

InitPredict ==
  /\ bt = NoClient
  /\ Quiescent
  /\ h_pc = "call"
  /\ ep \in {"classify_venue", "predict_busyness"}
  /\ req \in [title : PredictTitles, location : PredictLocations,
               hour : PredictHours, day_of_week : PredictDays]
  /\ ep = "classify_venue" => (req.hour = Null /\ req.day_of_week = Null)

\* classify_venue(title, location)
ClassifyCall ==
  /\ ep = "classify_venue" /\ h_pc = "call"
  /\ response' = [venue_type |-> classify_venue(req.title, req.location)]
  /\ h_pc' = "returned"
  /\ UNCHANGED <<bt, vsVars, ep, req, idx, cur, results, calls>>

\* predict_busyness(title, location, hour, day_of_week)
PredictCall ==
  /\ ep = "predict_busyness" /\ h_pc = "call"
  /\ response' = predict_busyness(req.title, req.location, req.hour, req.day_of_week)
  /\ h_pc' = "returned"
  /\ UNCHANGED <<bt, vsVars, ep, req, idx, cur, results, calls>>

NextPredict ==
  \/ ClassifyCall
  \/ PredictCall

SpecPredict == InitPredict /\ [][NextPredict]_vars

\* the call of a pure function has returned
Returned(fn) == ep = fn /\ h_pc = "returned"

\* C11: for all titles, locations, hours (absent or outside 0..23 included)
\* and days (absent or outside 0..6 included), predict_busyness returns an
\* integer busyness in [0,100], together with a tip and a venue type.
C11_PredictionInRange ==
  Returned("predict_busyness") =>
    /\ response.busyness \in 0..100
    /\ DOMAIN response = {"busyness", "tip", "venue_type"}

C11_Witness ==
  /\ Returned("predict_busyness")
  /\ req.hour = Num(18) /\ req.day_of_week = Num(6)
  /\ response.venue_type = "beach"
  /\ response.busyness = 100

\* the type of the first entry of the table, from entry i on, that has a
\* keyword occurring in text
RECURSIVE FirstEntryFrom(_, _)
FirstEntryFrom(text, i) ==
  IF i > Len(VENUE_PATTERNS) THEN "attraction"
  ELSE IF \E k \in 1..Len(VENUE_PATTERNS[i].keywords) :
            Contains(text, VENUE_PATTERNS[i].keywords[k])
       THEN VENUE_PATTERNS[i].type
       ELSE FirstEntryFrom(text, i + 1)

\* C12: classify_venue returns the type of the first entry, in table order,
\* that has a keyword occurring in the lowercased title+location text, and
\* "attraction" when no keyword occurs; "Juhu Beach" is a "beach" and
\* "Random Obscure Thing" an "attraction".
C12_FirstMatchingEntry ==
  Returned("classify_venue") =>
    /\ response.venue_type =
         FirstEntryFrom(ToLower(req.title \o <<" ">> \o req.location.s), 1)
    /\ (req.title = <<"J","u","h","u"," ","B","e","a","c","h">> /\ req.location = NoText)
         => response.venue_type = "beach"
    /\ (req.title = <<"R","a","n","d","o","m"," ","O","b","s","c","u","r","e"," ","T","h","i","n","g">>
        /\ req.location = NoText) => response.venue_type = "attraction"

C12_Witness ==
  /\ Returned("classify_venue")
  /\ req.title = <<"R","a","n","d","o","m"," ","O","b","s","c","u","r","e"," ","T","h","i","n","g">>
  /\ req.location = Text(<<"T","e","m","p","l","e"," ","R","o","a","d">>)
  /\ response.venue_type = "temple"

\* C17: for every title, location and hour in 0..23, the busyness predicted
\* for Sunday (day 6) is at least the busyness predicted for Monday (day 0)
\* with the same other arguments.
C17_SundayAtLeastMonday ==
  (/\ Returned("predict_busyness")
   /\ req.day_of_week = Num(6)
   /\ req.hour # Null /\ req.hour.n \in 0..23)
  => response.busyness >=
       predict_busyness(req.title, req.location, req.hour, Num(0)).busyness

C17_Witness ==
  /\ Returned("predict_busyness")
  /\ req.day_of_week = Num(6) /\ req.hour = Num(13)
  /\ response.venue_type = "restaurant"
  /\ response.busyness = 84
  /\ predict_busyness(req.title, req.location, req.hour, Num(0)).busyness = 56

\* C19: for the activity "Marina Beach" at 18:00 on day 5 without live data
\* the busyness is the predictor's 98 (beach curve 85 at hour 18 times 1.15,
\* rounded and clamped), the type is "beach" and the tip carries the sunset
\* addendum.
C19_MarinaBeachScenario ==
  ep \in Itineraries =>
    \A i \in 1..Len(results) :
      (/\ req.activities[i].title = <<"M","a","r","i","n","a"," ","B","e","a","c","h">>
       /\ ParseHour(req.activities[i].start_time) = Num(18)
       /\ req.activities[i].day_of_week = Num(5)
       /\ results[i].source = "predict_busyness")
      => /\ Busyness(i) = Num(98)
         /\ HOURLY_CURVES("beach")[18 + 1] = 85
         /\ ep = "analyze-itinerary" =>
               /\ results[i].optimization_tip = <<"predicted", "very crowded", "sunset">>
               /\ results[i].venue_name = NoneStr => results[i].venue_type = "beach"

C19_Witness ==
  /\ ep = "analyze-itinerary" /\ Configured
  /\ cur = "no venues"
  /\ idx = 1
  /\ req.activities[1].title = <<"M","a","r","i","n","a"," ","B","e","a","c","h">>
  /\ results[1].busyness_at_planned_time = Num(98)
  /\ results[1].venue_type = "beach"

(***************************************************************************)
(* BestTimeClient.is_configured applied to bounded credentials             *)
(***************************************************************************)
\* credentials holding the placeholder text of their own slot
PrivatePlaceholders ==
  { <<"y","o","u","r","_","p","r","i","v","a","t","e","_","k","e","y">>,
    <<"y","o","u","r","_","p","r","i","v","a","t","e","_","k","e","y","_","h","e","r","e">>,
    <<"p","r","i","_","y","o","u","r","_","p","r","i","v","a","t","e","_","k","e","y","_","x">> }
PublicPlaceholders ==
  { <<"y","o","u","r","_","p","u","b","l","i","c","_","k","e","y">>,
    <<"y","o","u","r","_","p","u","b","l","i","c","_","k","e","y","_","h","e","r","e">>,
    <<"y","o","u","r","_","p","u","b","l","i","c">>,
    <<"x","_","y","o","u","r","_","p","u","b","l","i","c","_","y">> }
\* other non-empty credentials: real keys, the other slot's placeholder,
\* a prefix of the placeholder text, other letter case, a blank
PrivateOthers ==
  { <<"p","r","i","_","1">>,
    <<"y","o","u","r","_","p","u","b","l","i","c","_","k","e","y">>,
    <<"y","o","u","r","_","p","r","i","v","a","t","e">>,
    <<"Y","o","u","r","_","P","r","i","v","a","t","e","_","K","e","y">>,
    <<" ">> }
PublicOthers ==
  { <<"p","u","b","_","1">>,
    <<"y","o","u","r","_","p","r","i","v","a","t","e","_","k","e","y">>,
    <<"y","o","u","r","_","p","u","b","l","i">>,
    <<" ">> }

InitConfigured ==
  /\ bt \in [present : {TRUE},
              api_key_private : {<<>>} \cup PrivatePlaceholders \cup PrivateOthers,
              api_key_public  : {<<>>} \cup PublicPlaceholders \cup PublicOthers]
  /\ Quiescent
  /\ ep = "is_configured"
  /\ req = NoRequest
  /\ h_pc = "call"

\* bt.is_configured
ConfiguredCall ==
  /\ ep = "is_configured" /\ h_pc = "call"
  /\ response' = [value |-> is_configured(bt)]
  /\ h_pc' = "returned"
  /\ UNCHANGED <<bt, vsVars, ep, req, idx, cur, results, calls>>

NextConfigured == ConfiguredCall

SpecConfigured == InitConfigured /\ [][NextConfigured]_vars

\* C16: is_configured is true if and only if both credentials are
\* non-empty and neither is a placeholder value, that is a private key
\* holding "your_private_key" or a public key holding "your_public".
C16_ConfiguredIffRealKeys ==
  Returned("is_configured") =>
    (response.value <=>
       /\ bt.api_key_private # <<>>
       /\ bt.api_key_public # <<>>
       /\ bt.api_key_private \notin PrivatePlaceholders
       /\ bt.api_key_public \notin PublicPlaceholders)

C16_Witness ==
  /\ Returned("is_configured")
  /\ bt.api_key_private \in PrivateOthers
  /\ bt.api_key_public = <<"y","o","u","r","_","p","u","b","l","i","c","_","k","e","y","_","h","e","r","e">>
  /\ ~response.value

(***************************************************************************)
(* The elderly scorer applied to bounded arguments                         *)
(***************************************************************************)
ScoreBusyness  == {Null, Num(0 - 20), Num(0), Num(5), Frac(109, 10), Num(45), Num(90), Num(150)}
ScoreDurations == {Null, Num(0), Num(61), Num(150), Num(181)}
ScoreTypes     == {NoText, Text(<<"m","u","s","e","u","m">>), Text(<<"h","i","k","i","n","g">>)}
ScoreDescriptions == {NoText, Text(<<"a"," ","s","t","e","e","p"," ","w","a","l","k">>)}
\* km in hundredths, as estimate_distance_from_duration gives them
ScoreDistances == {Null, Num(0), Num(150), Num(750)}
StepCounts     == {0 - 1, 0, 1500, 1501, 3001, 5001, 8000, 8001, 10500}

\* the keyword arguments of one call
ScoreArgs(fn) ==
  [name : {<<"x">>},
   busyness_pct : IF fn = "score_venue_for_elderly" THEN ScoreBusyness ELSE {Null},
   is_outdoor : BOOLEAN,
   duration_minutes : ScoreDurations,
   type : ScoreTypes,
   description : ScoreDescriptions,
   has_seating : IF fn = "score_venue_for_elderly" THEN BOOLEAN ELSE {TRUE},
   distance_km : ScoreDistances,
   estimated_steps : IF fn = "score_venue_for_elderly"
                     THEN {Null, Num(0), Num(10500)}
                     ELSE {Num(s) : s \in StepCounts}]

ChildNames ==
  { <<"R","o","l","l","e","r"," ","C","o","a","s","t","e","r"," ","Z","o","o">>,
    <<"R","o","l","l","e","r"," ","C","o","a","s","t","e","r"," ","Z","o","o"," ","B","a","r">>,
    <<"W","a","t","e","r"," ","P","a","r","k"," ","Z","o","o">>,
    <<"W","i","n","e"," ","B","a","r"," ","P","u","b"," ","S","p","a">>,
    <<"F","u","n"," ","T","o","y"," ","C","a","n","d","y"," ","Z","o","o"," ","A","r","c","a","d","e">>,
    <<"T","e","m","p","l","e">>,
    <<"C","l","i","f","f"," ","W","a","l","k">> }
ChildDescriptions == {NoText, Text(<<"b","u","n","g","e","e"," ","s","c","u","b","a">>), Text(<<"b","u","n","g","e","e"," ","s","c","u","b","a"," ","r","a","p","i","d","s">>)}
ChildTypes == {NoText, Text(<<>>), Text(<<"a","m","u","s","e","m","e","n","t","_","p","a","r","k">>), Text(<<"m","u","s","e","u","m">>)}
ChildDurations == {Null, Num(0), Num(45), Num(60), Num(90), Num(150)}

\* the arguments of one call of score_activity_for_child
ChildArgs ==
  [name : ChildNames, description : ChildDescriptions, is_outdoor : BOOLEAN,
   duration_minutes : ChildDurations, type : ChildTypes]

\* cur holds the order the process iterates KID_FRIENDLY_TYPES in
InitScore ==
  /\ bt = NoClient
  /\ vs_pc = "idle"
  /\ start_data = Unassigned
  /\ progress_data = Unassigned
  /\ polls = 0
  /\ last_resp = NoResp
  /\ vs_result = Unassigned
  /\ idx = 0
  /\ results = <<>>
  /\ calls = NoCalls
  /\ response = NoResponse
  /\ h_pc = "call"
  /\ \/ /\ ep \in {"score_venue_for_elderly", "compute_walkability_score"}
        /\ cur = ""
        /\ req \in ScoreArgs(ep)
     \/ /\ ep = "score_activity_for_child"
        /\ cur \in KidOrders
        /\ req \in ChildArgs

ChildScoreCall ==
  /\ ep = "score_activity_for_child" /\ h_pc = "call"
  /\ response' = score_activity_for_child(req.name, req.description, req.is_outdoor,
                                          req.duration_minutes, req.type, cur)
  /\ h_pc' = "returned"
  /\ UNCHANGED <<bt, vsVars, ep, req, idx, cur, results, calls>>

ScoreCall ==
  /\ ep = "score_venue_for_elderly" /\ h_pc = "call"
  /\ response' = score_venue_for_elderly(req)
  /\ h_pc' = "returned"
  /\ UNCHANGED <<bt, vsVars, ep, req, idx, cur, results, calls>>

\* a distance of None is not penalised, like a distance of 0
WalkabilityOf(a, estimated_steps) ==
  compute_walkability_score(a.is_outdoor, a.duration_minutes, a.type, a.description,
                            IF IsNone(a.distance_km) THEN 0 ELSE a.distance_km.n,
                            estimated_steps)

WalkabilityCall ==
  /\ ep = "compute_walkability_score" /\ h_pc = "call"
  /\ response' = [value |-> WalkabilityOf(req, req.estimated_steps.n)]
  /\ h_pc' = "returned"
  /\ UNCHANGED <<bt, vsVars, ep, req, idx, cur, results, calls>>

NextScore ==
  \/ ScoreCall
  \/ WalkabilityCall
  \/ ChildScoreCall

SpecScore == InitScore /\ [][NextScore]_vars

\* the tier the thresholds 75, 55 and 35 give a score
TierOf(score) ==
  IF score.n >= 75 * score.d THEN "Highly Recommended"
  ELSE IF score.n >= 55 * score.d THEN "Suitable"
  ELSE IF score.n >= 35 * score.d THEN "Use Caution"
  ELSE "Not Recommended"

\* C15: the recommendation of score_venue_for_elderly is the tier of the
\* overall_score reported in the same result: "Highly Recommended" from 75,
\* "Suitable" from 55, "Use Caution" from 35, "Not Recommended" below.
C15_TierOfReportedScore ==
  Returned("score_venue_for_elderly") =>
    response.recommendation = TierOf(response.overall_score)

\* C18: with the other arguments fixed, compute_walkability_score for a
\* larger estimated_steps is never above the score for a smaller one.
C18_StepsNeverRaiseWalkability ==
  Returned("compute_walkability_score") =>
    \A s2 \in StepCounts :
      req.estimated_steps.n <= s2 => WalkabilityOf(req, s2) <= response.value

C18_Witness ==
  /\ Returned("compute_walkability_score")
  /\ req.estimated_steps = Num(1501)
  /\ response.value = 65
  /\ WalkabilityOf(req, 8001) = 35

(***************************************************************************)
(* The 150-minute outdoor activity through the elderly orchestrator        *)
(***************************************************************************)
ElderAnswered ==
  ep = "elderly/optimize-itinerary" /\ h_pc = "done" /\ response.status = 200

\* the enriched activities of duration 150, outdoors, without category
LongOutdoor ==
  {i \in 1..Len(results) : /\ results[i].duration_minutes = Num(150)
                           /\ results[i].is_outdoor
                           /\ results[i].type = NoText}

\* the scores the response carries for an enriched activity
ScoresOf(i) ==
  {j \in 1..Len(response.scored_activities) :
     response.scored_activities[j] = score_venue_for_elderly(results[i])}

\* C20 as stated: such an activity has 150 * 70 = 10500 estimated steps
\* and a walkability of 70 - 35 - 10 - 12, clamped to [0, 100].
C20_StepsOutdoorDuration ==
  ElderAnswered =>
    \A i \in LongOutdoor :
      /\ results[i].estimated_steps = Num(150 * 70)
      /\ \A j \in ScoresOf(i) :
           response.scored_activities[j].walkability_score
             = Num(Max(0, Min(100, 70 - 35 - 10 - 12)))

\* C20 amended: such an activity has 10500 estimated steps and an
\* estimated distance of 7.5 km, and its walkability is 70 less the
\* distance penalty 35, the steps penalty 35, the outdoor penalty 10 and
\* the duration penalty 12, clamped to [0, 100]: 0.
C20_WithDistancePenalty ==
  ElderAnswered =>
    \A i \in LongOutdoor :
      /\ results[i].estimated_steps = Num(150 * 70)
      /\ results[i].distance_km = Num(750)
      /\ ScoresOf(i) # {}
      /\ \A j \in ScoresOf(i) :
           response.scored_activities[j].walkability_score
             = Num(Max(0, Min(100, 70 - 35 - 35 - 10 - 12)))

C20_Witness ==
  /\ ElderAnswered
  /\ LongOutdoor # {}
  /\ \E i \in LongOutdoor : \E j \in ScoresOf(i) :
       response.scored_activities[j].walkability_score = Num(0)

(***************************************************************************)
(* The two ranking functions applied to bounded activity lists             *)
(***************************************************************************)
MaxRank == 3

ElderlyDict(name, busyness_pct, is_outdoor, duration_minutes) ==
  [name |-> name, busyness_pct |-> busyness_pct, is_outdoor |-> is_outdoor,
   duration_minutes |-> duration_minutes, type |-> NoText, description |-> NoText,
   has_seating |-> TRUE, distance_km |-> Null, estimated_steps |-> Null]

\* two activities that differ and score alike, one above and one below
RankElderly ==
  { ElderlyDict(<<"M","u","s","e","u","m"," ","H","a","l","l">>, Num(50), FALSE, Null),
    ElderlyDict(<<"T","o","w","n"," ","L","i","b","r","a","r","y">>, Frac(501, 10), FALSE, Null),
    ElderlyDict(<<"T","e","a"," ","R","o","o","m">>, Num(0), FALSE, Num(45)),
    ElderlyDict(<<"L","o","n","g"," ","W","a","l","k">>, Null, TRUE, Num(150)) }

ChildDict(name, is_outdoor, duration_minutes) ==
  [name |-> name, description |-> NoText, is_outdoor |-> is_outdoor,
   duration_minutes |-> duration_minutes, type |-> NoText]

\* the third matches several kid-friendly types, the last has no name
RankChildren ==
  { ChildDict(<<"Z","o","o">>, FALSE, Null),
    ChildDict(<<"A","q","u","a","r","i","u","m">>, FALSE, Null),
    ChildDict(<<"W","a","t","e","r"," ","P","a","r","k"," ","Z","o","o">>, TRUE, Num(150)),
    ChildDict(<<"W","i","n","e"," ","B","a","r">>, FALSE, Num(45)),
    ChildDict(<<>>, FALSE, Null) }

InitRank ==
  /\ bt = NoClient
  /\ vs_pc = "idle"
  /\ start_data = Unassigned
  /\ progress_data = Unassigned
  /\ polls = 0
  /\ last_resp = NoResp
  /\ vs_result = Unassigned
  /\ idx = 0
  /\ results = <<>>
  /\ calls = NoCalls
  /\ response = NoResponse
  /\ h_pc = "call"
  /\ \/ /\ ep = "rank_activities_for_elderly"
        /\ cur = ""
        /\ \E s \in SeqsUpTo(RankElderly, MaxRank) :
              req = [NoRequest EXCEPT !.activities = s]
     \/ /\ ep = "rank_activities_for_children"
        /\ cur \in KidOrders
        /\ \E s \in SeqsUpTo(RankChildren, MaxRank) :
              req = [NoRequest EXCEPT !.activities = s]

RankElderlyCall ==
  /\ ep = "rank_activities_for_elderly" /\ h_pc = "call"
  /\ response' = rank_activities_for_elderly(req.activities)
  /\ h_pc' = "returned"
  /\ UNCHANGED <<bt, vsVars, ep, req, idx, cur, results, calls>>

RankChildrenCall ==
  /\ ep = "rank_activities_for_children" /\ h_pc = "call"
  /\ response' = [raised |-> FALSE,
                  scored |-> rank_activities_for_children(req.activities, cur)]
  /\ h_pc' = "returned"
  /\ UNCHANGED <<bt, vsVars, ep, req, idx, cur, results, calls>>

NextRank ==
  \/ RankElderlyCall
  \/ RankChildrenCall

SpecRank == InitRank /\ [][NextRank]_vars

\* the rearrangements of n positions
Perms(n) == {p \in [1..n -> 1..n] : \A i, j \in 1..n : p[i] = p[j] => i = j}

\* out holds the scores of the inputs, one each, by descending
\* overall_score, equal scores in the order of their inputs
RankedStable(scores, out) ==
  /\ Len(out) = Len(scores)
  /\ \E p \in Perms(Len(scores)) :
       /\ \A k \in 1..Len(out) : out[k] = scores[p[k]]
       /\ \A k, l \in 1..Len(out) :
            k < l => /\ ~Less(out[k].overall_score, out[l].overall_score)
                     /\ ~Less(out[l].overall_score, out[k].overall_score)
                          => p[k] < p[l]

\* C13: rank_activities_for_elderly and rank_activities_for_children return
\* exactly one score per input activity, by descending overall_score, and
\* activities of equal overall_score keep the order they had in the input.
C13_RankedStableDescending ==
  /\ Returned("rank_activities_for_elderly") =>
       /\ ~response.raised
       /\ RankedStable([i \in 1..Len(req.activities) |->
                          score_venue_for_elderly(req.activities[i])],
                       response.scored)
  /\ Returned("rank_activities_for_children") =>
       RankedStable([i \in 1..Len(req.activities) |->
                       ChildScoreOf(req.activities[i], cur)],
                    response.scored)

\* a lower score first in the input, then two different activities that
\* score alike
C13_Witness ==
  /\ Returned("rank_activities_for_elderly")
  /\ Len(req.activities) = 3
  /\ req.activities[1].name = <<"L","o","n","g"," ","W","a","l","k">>
  /\ req.activities[2].name = <<"M","u","s","e","u","m"," ","H","a","l","l">>
  /\ req.activities[3].name = <<"T","o","w","n"," ","L","i","b","r","a","r","y">>
  /\ response.scored[1].name = <<"M","u","s","e","u","m"," ","H","a","l","l">>
  /\ response.scored[2].name = <<"T","o","w","n"," ","L","i","b","r","a","r","y">>
  /\ response.scored[1].overall_score = response.scored[2].overall_score
  /\ Less(response.scored[3].overall_score, response.scored[2].overall_score)

(***************************************************************************)
(* The itinerary score of the two orchestrators                            *)
(***************************************************************************)
ChildAnswered ==
  ep = "child/optimize-itinerary" /\ h_pc = "done" /\ response.status = 200

\* the overall_score values of the scored activities, added up, in tenths
RECURSIVE TotalTenths(_)
TotalTenths(scored) ==
  IF scored = <<>> THEN 0
  ELSE scored[Len(scored)].overall_score.n
       + TotalTenths(SubSeq(scored, 1, Len(scored) - 1))

\* out is a number of tenths no further than half a tenth from the mean
\* of the scores, and the number 0 when there are no scores
MeanToOneDecimal(scored, out) ==
  IF scored = <<>> THEN out = Num(0)
  ELSE LET diff == out.n * Len(scored) - TotalTenths(scored)
       IN  /\ IsNumber(out) /\ out.d = 10
           /\ 2 * diff <= Len(scored)
           /\ 0 - 2 * diff <= Len(scored)

\* C14: the itinerary score of the elderly and of the child orchestrator
\* is the unweighted mean of the scored activities' overall_score rounded
\* to one decimal, and the number 0 for an empty activity list.
C14_ItineraryScoreIsMean ==
  /\ ElderAnswered =>
       MeanToOneDecimal(response.scored_activities, response.overall_elderly_score)
  /\ ChildAnswered =>
       MeanToOneDecimal(response.scored_activities, response.overall_child_score)

C14_Witness ==
  /\ ChildAnswered
  /\ Len(response.scored_activities) = 2
  /\ Less(response.scored_activities[2].overall_score,
          response.overall_child_score)
  /\ Less(response.overall_child_score,
          response.scored_activities[1].overall_score)

(***************************************************************************)
(* The child scorer applied to bounded arguments                           *)
(***************************************************************************)
ChildText == KidText(req.name, req.description)

\* the call is the one of the scenario: both keywords in the text and the
\* venue_type "amusement_park"
RollerCoasterZoo ==
  /\ Returned("score_activity_for_child")
  /\ req.type = Text(<<"a","m","u","s","e","m","e","n","t","_","p","a","r","k">>)
  /\ Contains(ChildText, <<"r","o","l","l","e","r"," ","c","o","a","s","t","e","r">>)
  /\ Contains(ChildText, <<"z","o","o">>)

\* what is_outdoor and the duration add to the fun score
FunExtras ==
    (IF req.is_outdoor THEN 5 ELSE 0)
  + (IF IsNone(req.duration_minutes) \/ req.duration_minutes.n = 0 THEN 0
     ELSE IF req.duration_minutes.n <= 60 THEN 5
     ELSE IF req.duration_minutes.n > 120 THEN 0 - 10
     ELSE 0)

\* the fun score is at most 100 and, with these two keywords the only
\* hits, it is 50 + 20 + 12 * 2 and what outdoor and duration add
FunOfScenario ==
  /\ response.fun_score.n <= 100
  /\ (/\ KeywordHits(SUPER_FUN_KEYWORDS, ChildText) = 2
      /\ KeywordHits(BORING_FOR_KIDS_KEYWORDS, ChildText) = 0)
       => response.fun_score = Num(Min(100, 50 + 20 + 12 * 2 + FunExtras))

\* C21 as stated: for a text with "roller coaster" and "zoo" and the
\* venue_type "amusement_park" the fun score holds the +20 type bonus and
\* +12 per keyword, at most 100, and the recommendation is "Super Fun!".
C21_RollerCoasterZoo ==
  RollerCoasterZoo =>
    /\ FunOfScenario
    /\ response.recommendation = "Super Fun!"

\* C21 amended: the same, with the recommendation "Super Fun!" for a text
\* that holds no boring keyword and at most two risky keywords.
C21_WithoutBoringOrRisky ==
  RollerCoasterZoo =>
    /\ FunOfScenario
    /\ (/\ KeywordHits(BORING_FOR_KIDS_KEYWORDS, ChildText) = 0
        /\ KeywordHits(RISKY_FOR_KIDS_KEYWORDS, ChildText) <= 2)
         => response.recommendation = "Super Fun!"

C21_Witness ==
  /\ RollerCoasterZoo
  /\ req.name = <<"R","o","l","l","e","r"," ","C","o","a","s","t","e","r"," ","Z","o","o">>
  /\ req.is_outdoor /\ req.duration_minutes = Num(45)
  /\ req.description = Text(<<"b","u","n","g","e","e"," ","s","c","u","b","a">>)
  /\ response.fun_score = Num(100)
  /\ response.recommendation = "Super Fun!"

InRange(score) == IsNumber(score) /\ 0 <= score.n /\ score.n <= 100 * score.d

\* C25: the three sub-scores and the overall score that
\* score_venue_for_elderly and score_activity_for_child return lie in
\* [0, 100], for any busyness, duration, flags, type and keyword hits.
C25_ScoresInRange ==
  /\ Returned("score_venue_for_elderly") =>
       /\ InRange(response.crowd_score)
       /\ InRange(response.walkability_score)
       /\ InRange(response.accessibility_score)
       /\ InRange(response.overall_score)
  /\ Returned("score_activity_for_child") =>
       /\ InRange(response.fun_score)
       /\ InRange(response.safety_score)
       /\ InRange(response.engagement_score)
       /\ InRange(response.overall_score)

\* a busyness above 100 meets the lower end of the crowd score
C25_Witness ==
  /\ Returned("score_venue_for_elderly")
  /\ req.busyness_pct = Num(150)
  /\ response.crowd_score = Frac(0, 10)
  /\ response.walkability_score = Num(0)

\* C29: score_activity_for_child returns the same score whatever order
\* the process iterates KID_FRIENDLY_TYPES in, also for a text that
\* matches several kid-friendly types and no venue_type.
C29_SameScoreEveryProcess ==
  Returned("score_activity_for_child") =>
    \A order \in KidOrders :
      response = score_activity_for_child(req.name, req.description, req.is_outdoor,
                                          req.duration_minutes, req.type, order)

(***************************************************************************)
(* The order of the busyness sources in the two orchestrators              *)
(***************************************************************************)
\* the search of the current activity has returned a non-empty venue list
\* to a configured orchestrator, which now acts on it
VenuesReturned ==
  /\ ep \in Itineraries /\ Configured
  /\ h_pc = "search" /\ vs_pc = "returned"
  /\ extract_venues_from_progress(vs_result) # <<>>

FirstVenue == VenueRec(extract_venues_from_progress(vs_result)[1])

CurrentActivity == req.activities[idx + 1]

\* what the first venue's embedded forecast yields for the day and hour
EmbeddedCell ==
  LET found == extract_busyness_from_venue(FirstVenue, CurrentActivity.day_of_week,
                                           ParseHour(CurrentActivity.start_time))
  IN  IF ~found.raised /\ found.source = "day_raw" THEN found.value ELSE Null

\* the weekly mean of the first venue's forecast matrix is available
HasWeeklyMean(venue) ==
  /\ venue.isdict
  /\ venue.venue_foot_traffic_forecast.kind = "dict"
  /\ venue.venue_foot_traffic_forecast.analysis.kind = "dict"
  /\ PositiveHours(venue.venue_foot_traffic_forecast.analysis.week_raw) # <<>>

\* the busyness of the result the step appends
SettledBusyness ==
  IF ep = "analyze-itinerary" THEN results'[idx'].busyness_at_planned_time
  ELSE results'[idx'].busyness_pct

\* C22: with a configured client and a non-empty venue list the embedded
\* forecast cell for the day and hour decides when it yields a value;
\* otherwise the day-forecast call for the venue and day is issued before
\* the weekly mean is used; and predict_busyness decides after the call
\* only when there is no weekly mean either.
C22_SourcesInOrder ==
  [][/\ (VenuesReturned /\ h_pc' # "search" /\ FirstVenue.isdict) =>
          IF ~IsNone(EmbeddedCell)
          THEN /\ idx' = idx + 1 /\ Len(results') = idx'
               /\ SettledBusyness = EmbeddedCell
               /\ calls' = calls
          ELSE (HasId(FirstVenue) /\ ~IsNone(CurrentActivity.day_of_week)) =>
                  (h_pc' = "forecast" /\ calls'.get_forecast_day = calls.get_forecast_day + 1)
     /\ (ep \in Itineraries /\ h_pc = "forecast" /\ h_pc' # "forecast"
         /\ results'[idx'].source = "predict_busyness") =>
          ~HasWeeklyMean(VenueRec(cur))]_vars

\* venue_search has returned to a configured orchestrator after its last
\* poll with a payload whose job is not finished
TimedOutSearch ==
  /\ ep \in Itineraries /\ Configured
  /\ h_pc = "search" /\ vs_pc = "returned"
  /\ polls = MaxPolls
  /\ vs_result.shape = "dict" /\ ~vs_result.job_finished

\* C23: when venue_search returns after exhausting its polls with a
\* payload whose job is not finished, the orchestrator settles the activity
\* by predict_busyness, also when the payload embeds venue records.
C23_TimeoutPayloadPredicts ==
  [][(TimedOutSearch /\ h_pc' # "search") =>
        /\ idx' = idx + 1 /\ Len(results') = idx'
        /\ results'[idx'].source = "predict_busyness"
        /\ SettledBusyness = Predicted(idx')]_vars

(***************************************************************************)
(* The submission gate of venue_search, under SpecSearch                   *)
(***************************************************************************)
\* the submission answered with a dict holding both ids
SubmittedWithIds ==
  start_data.shape = "dict" /\ start_data.job_id /\ start_data.collection_id

\* C30: venue_search polls only after the submission succeeded and returned
\* both ids.  The step that ends the submission either fails or returns
\* the start payload at once, with no poll, when the submission failed or
\* an id is missing, and enters the poll loop only with both ids; any call
\* that has polled, or is about to, holds a start payload with both ids.
C30_PollOnlyAfterSubmission ==
  /\ []((polls > 0 \/ vs_pc = "poll") => SubmittedWithIds)
  /\ []((vs_pc \in {"returned", "raised"} /\ ~SubmittedWithIds) =>
          /\ polls = 0 /\ last_resp = NoResp /\ progress_data = Unassigned)
  /\ [][vs_pc = "post" /\ vs_pc' # "post" =>
          /\ polls' = 0 /\ last_resp' = NoResp
          /\ start_data' = Unassigned => vs_pc' = "raised"
          /\ (start_data'.shape = "dict" /\ ~SubmittedWithIds') =>
                (vs_pc' = "returned" /\ vs_result' = start_data')
          /\ vs_pc' = "poll" => SubmittedWithIds']_vars

C30_Witness ==
  /\ vs_pc = "returned"
  /\ polls = 0 /\ last_resp = NoResp
  /\ start_data.shape = "dict"
  /\ start_data.job_id /\ ~start_data.collection_id
  /\ vs_result = start_data

(***************************************************************************)
(* The per-activity loop of the two itinerary handlers, under Spec         *)
(***************************************************************************)
\* an itinerary handler is inside its loop over the activities
InLoop == ep \in Itineraries /\ h_pc \in {"loop", "search", "forecast"}

\* C27: for every activity the orchestrator issues at most one venue_search
\* and at most one get_forecast_day, whatever they return and however they
\* fail.  A venue_search is issued only on taking up an activity, a
\* get_forecast_day only on the return of that search, and once a call has
\* ended the handler moves forward: to the day forecast of the same
\* activity or to the next activity, never back.
C27_OneCallPerActivity ==
  /\ [](ep \in Itineraries =>
         /\ calls.venue_search <=
              idx + (IF h_pc \in {"search", "forecast"} THEN 1 ELSE 0)
         /\ calls.get_forecast_day <= idx + (IF h_pc = "forecast" THEN 1 ELSE 0)
         /\ calls.other = 0)
  /\ [][InLoop =>
         /\ calls'.venue_search # calls.venue_search =>
               /\ h_pc = "loop" /\ h_pc' = "search" /\ idx' = idx
               /\ calls'.venue_search = calls.venue_search + 1
         /\ calls'.get_forecast_day # calls.get_forecast_day =>
               /\ h_pc = "search" /\ h_pc' = "forecast" /\ idx' = idx
               /\ calls'.get_forecast_day = calls.get_forecast_day + 1
         /\ (h_pc = "search" /\ h_pc' # "search") =>
               \/ h_pc' = "forecast" /\ idx' = idx /\ vs_pc = "returned"
               \/ h_pc' = "loop" /\ idx' = idx + 1
         /\ (h_pc = "forecast" /\ h_pc' # "forecast") =>
               (h_pc' = "loop" /\ idx' = idx + 1)]_vars

\* two activities, each searched once and forecast once, the first forecast
\* having yielded nothing
C27_Witness ==
  /\ ep \in Itineraries /\ h_pc = "done"
  /\ idx = 2
  /\ calls.venue_search = 2 /\ calls.get_forecast_day = 2
  /\ results[1].source = "predict_busyness"

\* the activity name a per-activity result carries
NameOf(r) == IF ep = "analyze-itinerary" THEN r.activity ELSE r.name

\* an external call of the handler is in flight
CallInFlight == h_pc \in {"search", "forecast"}

\* C26: within one itinerary analysis the activities are handled one after
\* another in input order.  The results gathered so far are those of the
\* first idx activities, in that order; an external call is in flight only
\* for activity idx + 1; the handler takes up the next activity only when
\* the search of the current one, poll loop included, has returned or
\* raised and no forecast call is pending; and the crowd analysis lists its
\* results in input order.
C26_SequentialInInputOrder ==
  /\ []((ep \in Itineraries /\ h_pc # "idle") =>
         /\ Len(results) = idx /\ idx <= Len(req.activities)
         /\ \A i \in 1..idx : NameOf(results[i]) = req.activities[i].title
         /\ CallInFlight => idx < Len(req.activities)
         /\ vs_pc # "idle" => h_pc = "search"
         /\ (ep = "analyze-itinerary" /\ h_pc = "done") =>
               /\ Len(response.analysis) = Len(req.activities)
               /\ \A i \in 1..Len(req.activities) :
                     response.analysis[i].activity = req.activities[i].title)
  /\ [][InLoop =>
         /\ idx' # idx =>
               /\ idx' = idx + 1
               /\ h_pc = "search" => vs_pc \in {"returned", "raised"}
               /\ vs_pc' = "idle" /\ h_pc' = "loop"
         /\ (vs_pc = "idle" /\ vs_pc' # "idle") =>
               /\ h_pc = "loop" /\ h_pc' = "search"
               /\ Len(results) = idx /\ idx' = idx
         /\ (h_pc # "forecast" /\ h_pc' = "forecast") =>
               /\ h_pc = "search" /\ vs_pc \in {"returned", "raised"}
               /\ vs_pc' = "idle" /\ idx' = idx]_vars

\* a finished crowd analysis of two different activities, both searched
C26_Witness ==
  /\ ep = "analyze-itinerary" /\ h_pc = "done"
  /\ Len(req.activities) = 2
  /\ req.activities[1].title # req.activities[2].title
  /\ calls.venue_search = 2
  /\ response.analysis[1].activity = req.activities[1].title
  /\ response.analysis[2].activity = req.activities[2].title

(***************************************************************************)
(* extract_busyness_from_venue on its own                                  *)
(***************************************************************************)
ExtractWeeks ==
  { <<>>, WeekMixed, << <<Num(1), Num(1), Num(2)>> >>, << <<Num(0), Null>> >> }

ExtractDirects == { NoDirect, <<Str, Num(30), Null>>, <<Null, Null, Num(0)>> }

\* venue records with every combination of the three sources
ExtractVenues ==
  { VenueRec(k) : k \in VenueKeys }
  \cup { VenueDict("ven_9", "Test Venue", ForecastDict(Analysis(d, w)),
                   NoForecast, direct) :
           d \in DayArrays, w \in ExtractWeeks, direct \in ExtractDirects }

\* Optional[int] arguments: absent, in range and out of range
ExtractDays  == {Null, Num(0), Num(6), Num(9), Num(0 - 1)}
ExtractHours == {Null, Num(0 - 1), Num(0), Num(18), Num(30)}

InitExtract ==
  /\ bt = NoClient
  /\ vs_pc = "idle"
  /\ start_data = Unassigned
  /\ progress_data = Unassigned
  /\ polls = 0
  /\ last_resp = NoResp
  /\ vs_result = Unassigned
  /\ idx = 0
  /\ cur = ""
  /\ results = <<>>
  /\ calls = NoCalls
  /\ response = NoResponse
  /\ h_pc = "call"
  /\ ep = "extract_busyness_from_venue"
  /\ \E venue \in ExtractVenues, day_of_week \in ExtractDays, hour \in ExtractHours :
        req = [venue |-> venue, day_of_week |-> day_of_week, hour |-> hour]

ExtractCall ==
  /\ ep = "extract_busyness_from_venue" /\ h_pc = "call"
  /\ response' = extract_busyness_from_venue(req.venue, req.day_of_week, req.hour)
  /\ h_pc' = "returned"
  /\ UNCHANGED <<bt, vsVars, ep, req, idx, cur, results, calls>>

NextExtract == ExtractCall

SpecExtract == InitExtract /\ [][NextExtract]_vars

\* the day is known and one of 0..6
DayInRange(day_of_week) ==
  ~IsNone(day_of_week) /\ 0 <= day_of_week.n /\ day_of_week.n <= 6

\* the forecast analysis of a venue dict whose containers are dicts
AnalysisOf(venue) ==
  IF venue.venue_foot_traffic_forecast.kind # "absent"
  THEN venue.venue_foot_traffic_forecast.analysis
  ELSE venue.forecast.analysis

\* strategy (1): the cell of the requested hour, a number not below zero,
\* with the day and the hour known and in range
CellStrategy(venue, day_of_week, hour) ==
  LET day_raw == AnalysisOf(venue).day_raw
  IN  IF /\ DayInRange(day_of_week) /\ HourInRange(hour, day_raw)
         /\ IsNumber(day_raw[hour.n + 1]) /\ day_raw[hour.n + 1].n >= 0
      THEN day_raw[hour.n + 1] ELSE Null

\* strategy (2): the mean of all positive values, as reported to one decimal
MeanStrategy(venue) ==
  LET all_hours == PositiveHours(AnalysisOf(venue).week_raw)
  IN  IF all_hours # <<>> THEN RoundedMean(all_hours) ELSE Null

\* strategy (3): the first direct field that holds a number
DirectStrategy(venue) == FirstNumber(venue.direct).value

\* C24: extract_busyness_from_venue returns the value of the first strategy
\* that succeeds, in the order (1) the cell of the requested day and hour,
\* used only when day and hour are both known and in range, (2) the mean of
\* all positive values of the weekly matrix, (3) a direct busyness field;
\* it returns no data only when all three fail.
C24_FirstStrategyThatSucceeds ==
  (Returned("extract_busyness_from_venue") /\ ~response.raised) =>
    LET c == CellStrategy(req.venue, req.day_of_week, req.hour)
        m == MeanStrategy(req.venue)
        d == DirectStrategy(req.venue)
    IN  response.value = IF ~IsNone(c) THEN c
                         ELSE IF ~IsNone(m) THEN m
                         ELSE d

(***************************************************************************)
(* Two venue_search calls running concurrently on one BestTimeClient.      *)
(* Each call has its own frame (its locals and its position); results      *)
(* holds the two frames, idx counts the jobs the service has started.  The *)
(* service tags every payload with the job it concerns: a submission       *)
(* starts job idx + 1, a poll is answered for the job_id it was sent.      *)
(* The calls interleave at their awaits: the POST, the sleep and the GET.  *)
(***************************************************************************)
Callers == {1, 2}

\* the payload p as answered for job j
Tagged(p, j) == [f \in DOMAIN p \cup {"job"} |-> IF f = "job" THEN j ELSE p[f]]

TwoStartPayloads ==
  { Payload("dict", TRUE, TRUE, FALSE, NoList, NoList, NoList),
    Payload("dict", TRUE, FALSE, FALSE, NoList, NoList, NoList),
    Payload("list", FALSE, FALSE, FALSE, ListOf(<<"v_day">>), NoList, NoList) }

TwoProgressPayloads ==
  { Payload("dict", TRUE, TRUE, FALSE, NoList, NoList, NoList),
    Payload("dict", TRUE, TRUE, TRUE, ListOf(<<"v_day">>), NoList, NoList) }

\* the locals of one call: nothing assigned yet
NewFrame ==
  [pc |-> "post", job |-> 0,
   start_data |-> Tagged(Unassigned, 0), progress_data |-> Tagged(Unassigned, 0),
   polls |-> 0, sent |-> {}, result |-> Tagged(Unassigned, 0)]

\* mutant: the ids are kept on the client, so a poll uses those of the
\* submission that came last
PollIdsOfLatestJob(frames, c) ==
  LET latest == CHOOSE d \in Callers : \A e \in Callers : frames[e].job <= frames[d].job
  IN  [job_id |-> frames[latest].start_data.job,
       collection_id |-> frames[latest].start_data.job]

\* params: job_id and collection_id are locals read from start_data
PollIds(frames, c) ==
  [job_id |-> frames[c].start_data.job, collection_id |-> frames[c].start_data.job]

InitTwo ==
  /\ bt \in Clients \ {NoClient}
  /\ vs_pc = "idle"
  /\ start_data = Unassigned
  /\ progress_data = Unassigned
  /\ polls = 0
  /\ last_resp = NoResp
  /\ vs_result = Unassigned
  /\ ep = "venue_search"
  /\ req = NoRequest
  /\ h_pc = "call"
  /\ idx = 0
  /\ cur = ""
  /\ results = [c \in Callers |-> NewFrame]
  /\ calls = NoCalls
  /\ response = NoResponse

\* Step 1 of call c: the POST is answered; the service has started a job
TwoSubmit(c) ==
  /\ ep = "venue_search" /\ results[c].pc = "post"
  /\ idx' = idx + 1
  /\ \E out \in {CallFailed} \cup TwoStartPayloads :
       LET sd == Tagged(out, idx + 1)
           f  == [results[c] EXCEPT !.job = idx + 1]
       IN  results' = [results EXCEPT ![c] =
             IF out = CallFailed THEN [f EXCEPT !.pc = "raised"]
             ELSE IF GetRaises(out) THEN [f EXCEPT !.pc = "raised", !.start_data = sd]
             ELSE IF MissingIds(out)
             THEN [f EXCEPT !.pc = "returned", !.start_data = sd, !.result = sd]
             ELSE [f EXCEPT !.pc = "sleep", !.start_data = sd]]
  /\ UNCHANGED <<bt, vsVars, ep, req, h_pc, cur, calls, response>>

\* await asyncio.sleep(2) of call c is over
TwoSleep(c) ==
  /\ ep = "venue_search" /\ results[c].pc = "sleep"
  /\ results' = [results EXCEPT ![c].pc = "get"]
  /\ UNCHANGED <<bt, vsVars, ep, req, h_pc, idx, cur, calls, response>>

\* the GET of call c is answered, for the job whose id was sent
TwoPoll(c) ==
  /\ ep = "venue_search" /\ results[c].pc = "get"
  /\ \E out \in {CallFailed} \cup TwoProgressPayloads :
       LET f        == results[c]
           ids      == PollIds(results, c)
           read     == out # CallFailed
           pd       == IF read THEN Tagged(out, ids.job_id) ELSE f.progress_data
           finished == read /\ ~GetRaises(out) /\ JobFinished(out)
           reraised == ~read /\ OnPollError # "continue"
           n        == f.polls + 1
           late     == TimeoutReturn(pd, f.start_data)
           g        == [f EXCEPT !.polls = n, !.progress_data = pd,
                                 !.sent = @ \cup {ids}]
       IN  results' = [results EXCEPT ![c] =
             IF finished THEN [g EXCEPT !.pc = "returned", !.result = pd]
             ELSE IF reraised THEN [g EXCEPT !.pc = "raised"]
             ELSE IF LoopContinues(n) THEN [g EXCEPT !.pc = "sleep"]
             ELSE [g EXCEPT !.pc = late.pc, !.result = late.value]]
  /\ UNCHANGED <<bt, vsVars, ep, req, h_pc, idx, cur, calls, response>>

NextTwo ==
  \/ \E c \in Callers : TwoSubmit(c)
  \/ \E c \in Callers : TwoSleep(c)
  \/ \E c \in Callers : TwoPoll(c)

SpecTwo == InitTwo /\ [][NextTwo]_vars

\* the ids call c was given by its own submission
OwnIds(c) == [job_id |-> results[c].job, collection_id |-> results[c].job]

\* C28: with two venue_search calls running concurrently on one client,
\* under every interleaving of their submissions, sleeps and polls, each
\* call polls only with the ids of its own job and returns only a payload
\* answered for its own job, its start payload or a poll response of its
\* own; no step changes a field of the client.
C28_ConcurrentCallsKeepApart ==
  /\ [](\A c \in Callers :
         LET f == results[c]
         IN  /\ f.sent \subseteq {OwnIds(c)}
             /\ f.polls > 0 => f.job > 0
             /\ f.progress_data.shape # "unassigned" => f.progress_data.job = f.job
             /\ f.pc = "returned" =>
                   /\ f.result.job = f.job
                   /\ f.result \in {f.start_data, f.progress_data})
  /\ [][bt' = bt]_vars

\* both calls have polled and returned: the one that submitted second
\* with the finished payload of its job, the one that submitted first with
\* the unfinished payload of its fifteenth poll
C28_Witness ==
  /\ ep = "venue_search"
  /\ \A c \in Callers : results[c].pc = "returned" /\ results[c].polls > 1
  /\ results[1].job = 2 /\ results[2].job = 1
  /\ results[1].result.job = 2 /\ Finished(results[1].result)
  /\ results[2].polls = MaxPolls /\ ~Finished(results[2].result)

====
